---- MODULE Spec2Model ----
(***************************************************************************)
(* Model of the commercial-register scraper (package "source"):            *)
(*   - service.Session: the request limiter (delay + request ceiling),      *)
(*   - court.CourtList: exact and closest court-name lookup,                *)
(*   - __main__.main: the per-record search loop with its policy stages.    *)
(* Time is an integer clock `now`; sleep(r) suspends for at least r.        *)
(***************************************************************************)
EXTENDS Integers, Sequences, FiniteSets, TLC

\* ---------------------------------------------------------------- bounds
MaxDelay == 2
MaxLimit == 2
MaxInterval == 3
MaxOvershoot == 1
MaxCalls == 3
Horizon == 4
MaxRows == 2
MainHorizon == 1     \* seconds that may pass, besides the sleeps, while main() runs

\* The clock reads seconds since the epoch: far beyond every configured
\* delay or interval, so the initial timestamps (-1) are long past.
StartTime == MaxInterval + MaxDelay + 1
MaxTime == StartTime + Horizon

\* Python's None, one value per type it stands in for
None == "None"
NoneName == <<None>>
NoneCourt == [name |-> NoneName, identifier |-> None]
NoneEntry == [index |-> -1, legal_entity_information |-> FALSE, documents |-> FALSE]
NoneResult == <<NoneEntry>>
NoneRecord == [name |-> None, registry_court |-> NoneName,
               registry_type |-> None, registry_id |-> None]

\* ------------------------------------------------------- program constants
SEARCH_POLICY_STRICT == 1
SEARCH_POLICY_NAME == 2
SEARCH_POLICY_KEYWORDS == 3

VARIABLES
    session,        \* the Session object (service.py)
    now,            \* time()
    op,             \* the operation executed last
    reached,        \* return value of the last is_limit_reached()
    call,           \* the last Session call: its time and the session before it
    returns,        \* return times of the make_limited_request() calls so far
    pc,             \* position of main()
    options,        \* RuntimeOptions
    court_list,     \* CourtList fetched at start-up
    i,              \* enumerate() index of the input row being processed
    record,         \* the SearchInputRecord of row i
    search_parameters,
    search_policy,
    search_result,
    result,         \* search_result[0] once the result is unique
    requests,       \* outbound requests issued for row i, in order
    throttles,      \* make_limited_request() calls since the last outbound request
    emitted,        \* rows written to entity-information.csv: [row, policy]
    balance_dates,  \* rows for which balance-dates.csv was written
    shareholders,   \* rows for which shareholder-lists.csv was written
    log,            \* messages logged while processing row i
    reader,         \* the rows option given and what became of the rows read
    entity_parser,  \* the LegalEntityInformationParser of the detail fetch
    page,           \* the detail page: tokens fed so far, heading seen in an h3
    entity_information, \* what LegalEntityInformationFetcher.fetch() returned
    capital_text,       \* the capital text at hand and the parts it is made of
    documents_parser,   \* the DocumentsTreeParser of the document tree fetch
    shareholder_lists,  \* the ShareholderLists object built from the tree
    markers,        \* the div markers of the document page fed so far
    fetcher,        \* a DocumentsTreeFetcher and the fetches made with it
    court_parser,   \* the CourtListParser of the court list fetch
    form,           \* the options of the search form fed so far
    lookups         \* the calls of the court list's lookups and what they returned

sessionVars == <<session, now, op, reached, call, returns>>
mainVars == <<pc, options, court_list, i, record, search_parameters, search_policy,
              search_result, result, requests, throttles, emitted, balance_dates,
              shareholders, log, reader>>
entityVars == <<entity_parser, page, entity_information, capital_text>>
documentVars == <<documents_parser, shareholder_lists, markers, fetcher>>
courtVars == <<court_parser, form, lookups>>
vars == <<session, now, op, reached, call, returns, pc, options, court_list, i, record,
          search_parameters, search_policy, search_result, result, requests,
          throttles, emitted, balance_dates, shareholders, log, reader,
          entity_parser, page, entity_information, capital_text, documents_parser,
          shareholder_lists, markers, fetcher,
          court_parser, form, lookups>>

\* ------------------------------------------------------------ service.py
\* Session.__init__
NewSession(delay, request_limit, limit_interval) ==
    [identifier |-> None, delay |-> delay, request_limit |-> request_limit,
     limit_interval |-> limit_interval, delay_start |-> -1, limit_start |-> -1,
     limited_requests |-> 0]

\* Session.__init__ raises ValueError for these arguments
ConstructorRaises(request_limit, limit_interval) ==
    request_limit > 0 /\ limit_interval < 0

\* sleep(r): the set of wake-up times when going to sleep at t
Sleep(t, r) == {t + r + o : o \in 0..MaxOvershoot}

LimitWindowOpenMutant(s, current) == current - s.limit_start <= s.limit_interval

\* `passed < self.limit_interval` of is_limit_reached
LimitWindowOpen(s, current) == current - s.limit_start < s.limit_interval

\* Session.is_limit_reached: the returned value and the session afterwards
is_limit_reached(s, current) ==
    IF s.request_limit <= 0 \/ s.limit_interval <= 0
    THEN [ret |-> FALSE, session |-> s]
    ELSE IF LimitWindowOpen(s, current)
         THEN IF s.limited_requests >= s.request_limit
              THEN [ret |-> TRUE, session |-> s]
              ELSE [ret |-> FALSE, session |-> s]
         ELSE [ret |-> FALSE, session |-> [s EXCEPT !.limited_requests = 0]]

LimitCeilingNoSleep(s, current) ==
    IF s.request_limit > 0 /\ s.limit_interval > 0
    THEN LET s1 == IF s.limited_requests = 0
                   THEN [s EXCEPT !.limit_start = current] ELSE s
         IN {[session |-> [s1 EXCEPT !.limited_requests =
                                 IF @ >= s1.request_limit THEN 1 ELSE @ + 1],
              now |-> current]}
    ELSE {[session |-> s, now |-> current]}

LimitCeilingSleepsOn(s, current) ==
    IF s.request_limit > 0 /\ s.limit_interval > 0
    THEN LET s1 == IF s.limited_requests = 0
                   THEN [s EXCEPT !.limit_start = current] ELSE s
             remaining == s1.limit_interval + current - s1.limit_start
         IN IF s1.limited_requests >= s1.request_limit
            THEN {[session |-> [s1 EXCEPT !.limited_requests = 1,
                                          !.limit_start = t],
                   now |-> t] : t \in Sleep(current, remaining)}
            ELSE {[session |-> [s1 EXCEPT !.limited_requests = @ + 1],
                   now |-> current]}
    ELSE {[session |-> s, now |-> current]}

\* Session.make_limited_request, first half: the request ceiling.
\* The set of (session, time) pairs the half can end in.
LimitCeiling(s, current) ==
    IF s.request_limit > 0 /\ s.limit_interval > 0
    THEN LET s1 == IF s.limited_requests = 0
                   THEN [s EXCEPT !.limit_start = current] ELSE s
             remaining == s1.limit_interval - current + s1.limit_start
         IN IF remaining > 0
            THEN IF s1.limited_requests >= s1.request_limit
                 THEN {[session |-> [s1 EXCEPT !.limited_requests = 1,
                                               !.limit_start = t],
                        now |-> t] : t \in Sleep(current, remaining)}
                 ELSE {[session |-> [s1 EXCEPT !.limited_requests = @ + 1],
                        now |-> current]}
            ELSE {[session |-> [s1 EXCEPT !.limited_requests = @ + 1],
                   now |-> current]}
    ELSE {[session |-> s, now |-> current]}

LimitDelayNonNegative(s, current) ==
    IF s.delay >= 0
    THEN LET remaining == s.delay - current + s.delay_start
             wake == IF remaining > 0 THEN Sleep(current, remaining)
                     ELSE {current}
         IN {[session |-> [s EXCEPT !.delay_start = t], now |-> t] : t \in wake}
    ELSE {[session |-> s, now |-> current]}

LimitDelayFromWindow(s, current) ==
    IF s.delay > 0
    THEN LET remaining == s.delay - current + s.limit_start
             wake == IF remaining > 0 THEN Sleep(current, remaining)
                     ELSE {current}
         IN {[session |-> [s EXCEPT !.delay_start = t], now |-> t] : t \in wake}
    ELSE {[session |-> s, now |-> current]}

\* Session.make_limited_request, second half: the delay between requests.
LimitDelay(s, current) ==
    IF s.delay > 0
    THEN LET remaining == s.delay - current + s.delay_start
             wake == IF remaining > 0 THEN Sleep(current, remaining)
                     ELSE {current}
         IN {[session |-> [s EXCEPT !.delay_start = t], now |-> t] : t \in wake}
    ELSE {[session |-> s, now |-> current]}

\* Session.make_limited_request: every (session, time) it can return with
make_limited_request(s, current) ==
    UNION {LimitDelay(c.session, c.now) : c \in LimitCeiling(s, current)}

\* -------------------------------------------------------------- court.py
\* Names are sequences of characters.  A dict is a sequence of [key, value]
\* in insertion order; assigning an existing key keeps its position.
DictSet(d, k, v) ==
    IF \E n \in 1..Len(d) : d[n].key = k
    THEN [n \in 1..Len(d) |-> IF d[n].key = k THEN [key |-> k, value |-> v] ELSE d[n]]
    ELSE Append(d, [key |-> k, value |-> v])

RECURSIVE DictOf(_)
DictOf(pairs) ==
    IF pairs = <<>> THEN <<>>
    ELSE LET last == pairs[Len(pairs)]
         IN DictSet(DictOf(SubSeq(pairs, 1, Len(pairs) - 1)), last.key, last.value)

\* dict.get(k), with `none` standing for None
DictGet(d, k, none) ==
    IF \E n \in 1..Len(d) : d[n].key = k
    THEN d[CHOOSE n \in 1..Len(d) : d[n].key = k].value
    ELSE none

\* CourtList.__init__
CourtList(courts) ==
    [name_map |-> DictOf([n \in 1..Len(courts) |->
                            [key |-> courts[n].name, value |-> courts[n]]]),
     identifier_map |-> DictOf([n \in 1..Len(courts) |->
                            [key |-> courts[n].identifier, value |-> courts[n]]])]

\* the first court of the list, whatever the name
GetFirstCourt(cl, name) ==
    IF cl.name_map = <<>> THEN NoneCourt ELSE cl.name_map[1].value

\* CourtList.get_from_name
get_from_name(cl, name) ==
    IF name = NoneName THEN NoneCourt ELSE DictGet(cl.name_map, name, NoneCourt)

\* n contains the characters of part as a contiguous run
Contains(n, part) ==
    \E k \in 0..(Len(n) - Len(part)) : SubSeq(n, k + 1, k + Len(part)) = part

\* re.match(r".*\(name\).*", n) for a name of literal characters
ParenthesesMatch(name, n) == Contains(n, <<"(">> \o name \o <<")">>)

\* length of the common run of a from position x and b from position y
RECURSIVE CommonRun(_, _, _, _)
CommonRun(a, b, x, y) ==
    IF x > Len(a) \/ y > Len(b) \/ a[x] # b[y] THEN 0
    ELSE 1 + CommonRun(a, b, x + 1, y + 1)

\* SequenceMatcher.find_longest_match: the longest common block; of those
\* the one starting earliest in a, and of those the one earliest in b
LongestMatch(a, b) ==
    LET blocks == {[x |-> x, y |-> y, size |-> CommonRun(a, b, x, y)] :
                       x \in 1..Len(a), y \in 1..Len(b)}
    IN CHOOSE m \in blocks :
          \A o \in blocks :
              \/ m.size > o.size
              \/ m.size = o.size /\ m.x < o.x
              \/ m.size = o.size /\ m.x = o.x /\ m.y <= o.y

\* SequenceMatcher.get_matching_blocks: total size of the matching blocks
RECURSIVE Matches(_, _)
Matches(a, b) ==
    IF Len(a) = 0 \/ Len(b) = 0 THEN 0
    ELSE LET m == LongestMatch(a, b)
         IN IF m.size = 0 THEN 0
            ELSE m.size
                 + Matches(SubSeq(a, 1, m.x - 1), SubSeq(b, 1, m.y - 1))
                 + Matches(SubSeq(a, m.x + m.size, Len(a)),
                           SubSeq(b, m.y + m.size, Len(b)))

\* SequenceMatcher.ratio() as the fraction num/den
Ratio(a, b) ==
    IF Len(a) + Len(b) = 0 THEN [num |-> 1, den |-> 1]
    ELSE [num |-> 2 * Matches(a, b), den |-> Len(a) + Len(b)]

RatioGreaterOrEqual(r, q) == r.num * q.den >= q.num * r.den

\* `r > ratio` of get_closest_from_name
RatioGreater(r, q) == r.num * q.den > q.num * r.den

\* the second loop of get_closest_from_name over the first k entries
RECURSIVE ClosestByRatio(_, _, _)
ClosestByRatio(d, name, k) ==
    IF k = 0 THEN [ratio |-> [num |-> 0, den |-> 1], court |-> NoneCourt]
    ELSE LET best == ClosestByRatio(d, name, k - 1)
             r == Ratio(name, d[k].key)
         IN IF RatioGreater(r, best.ratio)
            THEN [ratio |-> r, court |-> d[k].value] ELSE best

\* CourtList.get_closest_from_name
get_closest_from_name(cl, name) ==
    IF name = NoneName THEN NoneCourt
    ELSE LET d == cl.name_map
             hits == {k \in 1..Len(d) : ParenthesesMatch(name, d[k].key)}
         IN IF hits # {}
            THEN d[CHOOSE k \in hits : \A o \in hits : k <= o].value
            ELSE ClosestByRatio(d, name, Len(d)).court

\* ------------------------------------------------------------- search.py
KEYWORDS_OPTION_ALL == "ALL"
KEYWORDS_OPTION_AT_LEAST_ONE == "AT_LEAST_ONE"
KEYWORDS_OPTION_EQUAL_NAME == "EQUAL_NAME"

\* SearchParameters(keywords, register_type, register_id,
\*                  search_option_deleted, keywords_option)
SearchParameters(keywords, register_type, register_id, deleted, keywords_option) ==
    [keywords |-> keywords, registry_type |-> register_type,
     registry_id |-> register_id, registry_court |-> None,
     keywords_option |-> keywords_option, search_option_deleted |-> deleted]

\* SearchResultEntry with its content flags
SearchResultEntries ==
    [index : {0}, legal_entity_information : BOOLEAN, documents : BOOLEAN]

\* SearchRequestHelper.perform_request: no result list (None) when the request
\* fails, otherwise the list of entries of the result page
SearchOutcomes ==
    {NoneResult} \cup {<<>>} \cup {<<e>> : e \in SearchResultEntries}
    \cup {<<[index |-> 0, legal_entity_information |-> TRUE, documents |-> TRUE],
            [index |-> 1, legal_entity_information |-> TRUE, documents |-> FALSE]>>}

IsEmptyResult(sr) == sr # NoneResult /\ Len(sr) = 0

\* ------------------------------------------------------------- entity.py
\* A text node is the sequence of its whitespace-separated words.
REGISTRY_TYPES == <<"HRA", "HRB", "GnR", "PR", "VR">>

NoneInformation == [none |-> TRUE]
NoneBalance == <<None>>
NoneCapital == -1
NoneText == <<None>>

\* LegalEntityInformation(): every field defaults to None
LegalEntityInformation ==
    [name |-> NoneText, registry_court |-> NoneText, registry_type |-> None,
     registry_id |-> NoneText, structure |-> NoneText, capital |-> NoneCapital,
     capital_currency |-> None, entry |-> None, deletion |-> None,
     balance |-> NoneBalance, address |-> NoneText, post_code |-> None,
     city |-> NoneText]

STATE_VOID == 0
STATE_AWAIT_LEGAL_ENTITY_INFORMATION_HEADER == 1
STATE_LEGAL_ENTITY_INFORMATION_HEADER == 2
STATE_AWAIT_LEGAL_ENTITY_COURT == 3
STATE_AWAIT_REGISTRY_DETAIL_SECTION == 4
STATE_AWAIT_REGISTRY_DETAIL == 5
STATE_REGISTRY_DETAIL == 6
STATE_AWAIT_LEGAL_ENTITY_NAME == 7
STATE_LEGAL_ENTITY_NAME == 8
STATE_AWAIT_KEYWORD == 9
STATE_KEYWORD == 10
STATE_AWAIT_VALUE == 11
STATE_VALUE == 12

SUB_STATE_VOID == 0
SUB_STATE_AWAIT_STREET == 1
SUB_STATE_STREET == 2
SUB_STATE_AWAIT_CITY == 3
SUB_STATE_CITY == 4
SUB_STATE_AWAIT_BALANCE_OPTION == 5
SUB_STATE_AWAIT_BALANCE == 6

\* the umlauts of the page are written out: ae for U+00E4, oe for U+00F6
HEADING == "Unternehmenstraegerdaten"
COURT_MARK == "Amtsgericht"
KEYWORD_LEGAL_STRUCTURE == "Rechtsform"
KEYWORD_CAPITAL == "Kapital"
KEYWORD_ENTRY_DATE == "Eintragsdatum"
KEYWORD_DELETION_DATE == "Loeschdatum"
KEYWORD_BALANCE == "Jahresabschluss"
KEYWORD_ADDRESS == "Anschrift"
KEYWORDS == <<KEYWORD_LEGAL_STRUCTURE, KEYWORD_CAPITAL, KEYWORD_ENTRY_DATE,
              KEYWORD_DELETION_DATE, KEYWORD_BALANCE, KEYWORD_ADDRESS>>

\* LegalEntityInformationParser.__init__
LegalEntityInformationParser ==
    [state |-> STATE_VOID, sub_state |-> SUB_STATE_VOID,
     result |-> LegalEntityInformation, keyword |-> None]

\* words that are a date DD.MM.YYYY, a post code, an amount (in hundredths)
DateWords == {"01.02.2003", "31.12.2019"}
PostCodeWords == {"10115"}
AmountWords == {"1.000,50", "25000"}
AmountOf(word) == IF word = "1.000,50" THEN 100050 ELSE 2500000
CurrencyWords == {"EUR", "DEM"}
DigitWords == {"123"} \cup PostCodeWords \cup AmountWords \cup DateWords

\* `word in data` for a one-word needle
InData(word, data) == \E n \in 1..Len(data) : data[n] = word

\* any word is taken as the type code
SetRegistryOfAnyType(r, data) ==
    IF Len(data) >= 3 /\ data[Len(data)] \in DigitWords
    THEN [r EXCEPT !.registry_court = SubSeq(data, 1, Len(data) - 2),
                   !.registry_type = data[Len(data) - 1],
                   !.registry_id = <<data[Len(data)]>>]
    ELSE r

\* __set_registry_information: court, one of the five type codes, digits
set_registry_information(r, data) ==
    IF /\ Len(data) >= 3
       /\ \E t \in 1..Len(REGISTRY_TYPES) : REGISTRY_TYPES[t] = data[Len(data) - 1]
       /\ data[Len(data)] \in DigitWords
    THEN [r EXCEPT !.registry_court = SubSeq(data, 1, Len(data) - 2),
                   !.registry_type = data[Len(data) - 1],
                   !.registry_id = <<data[Len(data)]>>]
    ELSE r

\* __set_name: the text after the leading dash
set_name(r, data) ==
    IF Len(data) >= 1 /\ data[1] = "-"
    THEN [r EXCEPT !.name = Tail(data)]
    ELSE r

\* __set_structure: the stripped text
set_structure(r, data) == [r EXCEPT !.structure = data]

\* __set_capital: an amount and an optional currency
set_capital(r, data) ==
    IF /\ Len(data) \in {1, 2}
       /\ data[1] \in AmountWords
       /\ Len(data) = 2 => data[2] \in CurrencyWords
    THEN [r EXCEPT !.capital = AmountOf(data[1]),
                   !.capital_currency = IF Len(data) = 2 THEN data[2] ELSE None]
    ELSE r

\* __set_date: a text that begins with a date
set_date(r, data, entry) ==
    IF Len(data) >= 1 /\ data[1] \in DateWords
    THEN IF entry THEN [r EXCEPT !.entry = data[1]]
         ELSE [r EXCEPT !.deletion = data[1]]
    ELSE r

\* __process_balance: a text that is a date is appended to the balance list
process_balance(r, data) ==
    IF Len(data) = 1 /\ data[1] \in DateWords
    THEN [r EXCEPT !.balance = Append(@, data[1])]
    ELSE r

\* __set_address: the stripped text
set_address(r, data) == [r EXCEPT !.address = data]

\* __set_city: an optional post code, then a text without digits
set_city(r, data) ==
    LET coded == Len(data) >= 2 /\ data[1] \in PostCodeWords
        rest == IF coded THEN Tail(data) ELSE data
    IN IF Len(rest) >= 1 /\ \A n \in 1..Len(rest) : rest[n] \notin DigitWords
       THEN [r EXCEPT !.post_code = IF coded THEN data[1] ELSE None,
                      !.city = rest]
       ELSE r

\* no token of the detail page was fed yet
NoPage == [fed |-> 0, in_h3 |-> FALSE, heading |-> FALSE,
           registry_line |-> "none"]

\* LegalEntityInformationParser.handle_starttag
handle_starttag(p, tag) ==
    IF tag = "h3"
    THEN [p EXCEPT !.state = STATE_AWAIT_LEGAL_ENTITY_INFORMATION_HEADER]
    ELSE IF tag = "td"
    THEN IF p.state = STATE_LEGAL_ENTITY_INFORMATION_HEADER
         THEN [p EXCEPT !.state = STATE_AWAIT_LEGAL_ENTITY_COURT]
         ELSE IF p.state = STATE_LEGAL_ENTITY_NAME \/ p.state = STATE_VALUE
         THEN [p EXCEPT !.state = STATE_AWAIT_KEYWORD]
         ELSE IF p.state = STATE_KEYWORD
         THEN [p EXCEPT !.state = STATE_AWAIT_VALUE]
         ELSE p
    ELSE IF tag = "b"
    THEN IF p.state = STATE_AWAIT_REGISTRY_DETAIL_SECTION
         THEN [p EXCEPT !.state = STATE_AWAIT_REGISTRY_DETAIL]
         ELSE p
    ELSE IF tag = "div"
    THEN IF p.state = STATE_AWAIT_VALUE /\ p.sub_state = SUB_STATE_STREET
         THEN [p EXCEPT !.sub_state = SUB_STATE_AWAIT_CITY]
         ELSE p
    ELSE IF tag = "select"
    THEN IF p.state = STATE_AWAIT_VALUE
         THEN [p EXCEPT !.result.balance = <<>>,
                        !.sub_state = SUB_STATE_AWAIT_BALANCE_OPTION]
         ELSE p
    ELSE IF tag = "option"
    THEN IF p.state = STATE_AWAIT_VALUE /\ p.sub_state = SUB_STATE_AWAIT_BALANCE_OPTION
         THEN [p EXCEPT !.sub_state = SUB_STATE_AWAIT_BALANCE]
         ELSE p
    ELSE p

\* the first keyword the text starts with, or None
KeywordOf(data) ==
    IF Len(data) >= 1 /\ \E k \in 1..Len(KEYWORDS) : KEYWORDS[k] = data[1]
    THEN data[1]
    ELSE None

\* LegalEntityInformationParser.__handle_value
handle_value(p, value) ==
    IF p.keyword = KEYWORD_LEGAL_STRUCTURE
    THEN [p EXCEPT !.result = set_structure(@, value)]
    ELSE IF p.keyword = KEYWORD_CAPITAL
    THEN [p EXCEPT !.result = set_capital(@, value)]
    ELSE IF p.keyword = KEYWORD_ENTRY_DATE
    THEN [p EXCEPT !.result = set_date(@, value, TRUE)]
    ELSE IF p.keyword = KEYWORD_DELETION_DATE
    THEN [p EXCEPT !.result = set_date(@, value, FALSE)]
    ELSE IF p.keyword = KEYWORD_BALANCE
    THEN IF p.sub_state = SUB_STATE_AWAIT_BALANCE
         THEN [p EXCEPT !.result = process_balance(@, value)]
         ELSE p
    ELSE IF p.keyword = KEYWORD_ADDRESS
    THEN IF p.sub_state = SUB_STATE_VOID
         THEN [p EXCEPT !.sub_state = SUB_STATE_AWAIT_STREET]
         ELSE IF p.sub_state = SUB_STATE_AWAIT_STREET
         THEN [p EXCEPT !.result = set_address(@, value),
                        !.sub_state = SUB_STATE_STREET]
         ELSE IF p.sub_state = SUB_STATE_AWAIT_CITY
         THEN [p EXCEPT !.result = set_city(@, value),
                        !.sub_state = SUB_STATE_CITY]
         ELSE p
    ELSE p

\* line 194, `"Unternehmenstraegerdaten" in data`
HeaderFound(data) == InData(HEADING, data)

\* LegalEntityInformationParser.handle_data
handle_data(p, data) ==
    IF p.state = STATE_AWAIT_LEGAL_ENTITY_INFORMATION_HEADER
    THEN IF HeaderFound(data)
         THEN [p EXCEPT !.state = STATE_LEGAL_ENTITY_INFORMATION_HEADER]
         ELSE p
    ELSE IF p.state = STATE_AWAIT_LEGAL_ENTITY_COURT
    THEN IF InData(COURT_MARK, data)
         THEN [p EXCEPT !.state = STATE_AWAIT_REGISTRY_DETAIL_SECTION]
         ELSE p
    ELSE IF p.state = STATE_AWAIT_REGISTRY_DETAIL
    THEN [p EXCEPT !.result = set_registry_information(@, data),
                   !.state = STATE_REGISTRY_DETAIL]
    ELSE IF p.state = STATE_AWAIT_LEGAL_ENTITY_NAME
    THEN [p EXCEPT !.result = set_name(@, data),
                   !.state = STATE_LEGAL_ENTITY_NAME]
    ELSE IF p.state = STATE_AWAIT_KEYWORD
    THEN [p EXCEPT !.state = STATE_KEYWORD, !.keyword = KeywordOf(data)]
    ELSE IF p.state = STATE_AWAIT_VALUE
    THEN handle_value(p, data)
    ELSE p

\* LegalEntityInformationParser.handle_endtag
handle_endtag(p, tag) ==
    IF tag = "h3"
    THEN IF p.state = STATE_AWAIT_LEGAL_ENTITY_INFORMATION_HEADER
         THEN [p EXCEPT !.state = STATE_VOID]
         ELSE p
    ELSE IF tag = "td"
    THEN IF p.state = STATE_AWAIT_LEGAL_ENTITY_COURT
         THEN [p EXCEPT !.state = STATE_LEGAL_ENTITY_INFORMATION_HEADER]
         ELSE IF p.state = STATE_AWAIT_VALUE
         THEN [p EXCEPT !.state = STATE_VALUE]
         ELSE p
    ELSE IF tag = "b"
    THEN IF p.state = STATE_REGISTRY_DETAIL
         THEN [p EXCEPT !.state = STATE_AWAIT_LEGAL_ENTITY_NAME]
         ELSE p
    ELSE IF tag = "div"
    THEN IF p.sub_state = SUB_STATE_CITY
         THEN [p EXCEPT !.sub_state = SUB_STATE_VOID, !.state = STATE_VALUE]
         ELSE p
    ELSE IF tag = "option"
    THEN IF p.sub_state = SUB_STATE_AWAIT_BALANCE
         THEN [p EXCEPT !.sub_state = SUB_STATE_AWAIT_BALANCE_OPTION]
         ELSE p
    ELSE IF tag = "select"
    THEN IF p.sub_state = SUB_STATE_AWAIT_BALANCE_OPTION
         THEN [p EXCEPT !.sub_state = SUB_STATE_VOID]
         ELSE p
    ELSE p

\* ---------------------------------------------------------- documents.py
\* DocumentsTreeElement objects live in a heap, a sequence in order of
\* creation; a reference is an index into it and 0 stands for None.
NoneElement == 0
NoneChildren == <<NoneElement>>

\* DocumentsTreeElement.__init__
DocumentsTreeElement(name, as_directory, parent) ==
    [name |-> name, parent |-> parent,
     children |-> IF as_directory THEN <<>> ELSE NoneChildren]

CreateChildFirst(heap, self, name, as_directory) ==
    [heap |-> [Append(heap, DocumentsTreeElement(name, as_directory, self))
                  EXCEPT ![self].children = <<Len(heap) + 1>> \o @],
     element |-> Len(heap) + 1, raised |-> FALSE]

\* DocumentsTreeElement.create_child: the heap afterwards, the element
\* created, and whether ValueError was raised
create_child(heap, self, name, as_directory) ==
    IF self # NoneElement /\ heap[self].children # NoneChildren
    THEN [heap |-> [Append(heap, DocumentsTreeElement(name, as_directory, self))
                       EXCEPT ![self].children = Append(@, Len(heap) + 1)],
          element |-> Len(heap) + 1, raised |-> FALSE]
    ELSE [heap |-> heap, element |-> NoneElement, raised |-> TRUE]

\* no ShareholderLists object was built
NoneLists == [none |-> TRUE]

\* the label of the folder of the shareholder lists, lines 96 and 98
LIST_LABEL == "Liste der Gesellschafter"

\* re.search(r"(\d{1,2}.\d{1,2}.\d{2,4})", name), line 99: the first date of
\* the name, names being sequences of words
RECURSIVE SearchDate(_)
SearchDate(name) ==
    IF name = <<>> THEN None
    ELSE IF Head(name) \in DateWords THEN Head(name)
    ELSE SearchDate(Tail(name))

\* a leaf outside the folder is taken as one inside
ExtractEveryLeaf(heap, documents, is_shareholder_lists) ==
    [k \in 1..Len(documents) |-> SearchDate(heap[documents[k]].name)]

\* ShareholderLists.__extract, lines 80-105
RECURSIVE extract(_, _, _)
extract(heap, documents, is_shareholder_lists) ==
    IF documents = <<>> THEN <<>>
    ELSE LET document == heap[Head(documents)]
         IN (IF document.children # NoneChildren
             THEN extract(heap, document.children,
                          is_shareholder_lists \/ document.name = <<LIST_LABEL>>)
             ELSE IF is_shareholder_lists
             THEN IF document.name # <<>> /\ Head(document.name) = LIST_LABEL
                  THEN <<SearchDate(document.name)>>
                  ELSE <<>>
             ELSE <<>>)
            \o extract(heap, Tail(documents), is_shareholder_lists)

\* ShareholderLists.__init__, lines 68-78
ShareholderLists(entity, heap, documents) ==
    [entity |-> entity, dates |-> extract(heap, heap[documents].children, FALSE)]

\* no token of the document page was fed yet
NoMarkers ==
    [fed |-> 0, stack |-> <<>>, expected |-> <<>>, closed |-> FALSE,
     well_nested |-> TRUE, contained |-> TRUE]

_STATE_VOID == 0
_STATE_ERROR == 1
_STATE_DIRECTORY_ROOT == 2
_STATE_DIRECTORY_CONTENTS == 3
_STATE_FILE_ROOT == 4
_STATE_FINISHED == 5

\* DocumentsTreeParser.__init__; raised records an exception leaving feed()
DocumentsTreeParser ==
    [state |-> _STATE_VOID, depth |-> 0, element |-> NoneElement,
     result |-> NoneElement, heap |-> <<>>, raised |-> FALSE]

\* lines 186-200: the body of the loop over attrs, for one attribute
HandleAttribute(p, attr) ==
    IF attr.key = "id"
    THEN IF attr.value = "tree-root" /\ p.state = _STATE_VOID
         THEN [p EXCEPT !.heap = Append(@, DocumentsTreeElement(<<>>, TRUE, NoneElement)),
                        !.element = Len(p.heap) + 1,
                        !.state = _STATE_DIRECTORY_ROOT,
                        !.depth = 1]
         ELSE p
    ELSE IF attr.key = "class"
    THEN IF /\ attr.value = "tree-open" \/ attr.value = "tree-closed"
            /\ p.state = _STATE_DIRECTORY_ROOT
         THEN [p EXCEPT !.state = _STATE_DIRECTORY_CONTENTS]
         ELSE IF attr.value = "tree-node" /\ p.state = _STATE_DIRECTORY_CONTENTS
         THEN LET c == create_child(p.heap, p.element, <<>>, TRUE)
              IN IF c.raised THEN [p EXCEPT !.raised = TRUE]
                 ELSE [p EXCEPT !.heap = c.heap, !.element = c.element,
                                !.state = _STATE_DIRECTORY_ROOT,
                                !.depth = @ + 1]
         ELSE IF attr.value = "tree-file" /\ p.state = _STATE_DIRECTORY_CONTENTS
         THEN LET c == create_child(p.heap, p.element, <<>>, FALSE)
              IN IF c.raised THEN [p EXCEPT !.raised = TRUE]
                 ELSE [p EXCEPT !.heap = c.heap, !.element = c.element,
                                !.state = _STATE_FILE_ROOT]
         ELSE p
    ELSE p

\* line 185, `for key, value in attrs`; an exception ends the loop
RECURSIVE HandleAttributes(_, _)
HandleAttributes(p, attrs) ==
    IF attrs = <<>> \/ p.raised THEN p
    ELSE HandleAttributes(HandleAttribute(p, Head(attrs)), Tail(attrs))

\* DocumentsTreeParser.handle_starttag
documents_handle_starttag(p, tag, attrs) ==
    IF tag = "div" THEN HandleAttributes(p, attrs) ELSE p

\* text is added to the current node in every state
DataInEveryState(p, data) ==
    IF p.element = NoneElement THEN p
    ELSE [p EXCEPT !.heap[p.element].name = @ \o data]

\* DocumentsTreeParser.handle_data; names are sequences of words
documents_handle_data(p, data) ==
    IF p.state = _STATE_DIRECTORY_ROOT \/ p.state = _STATE_FILE_ROOT
    THEN IF p.element = NoneElement THEN [p EXCEPT !.raised = TRUE]
         ELSE [p EXCEPT !.heap[p.element].name = @ \o data]
    ELSE p

\* every close of a folder ends the parse
EndtagFinishesAlways(p, tag) ==
    IF tag = "div" /\ p.state = _STATE_DIRECTORY_ROOT /\ p.element # NoneElement
    THEN [p EXCEPT !.depth = @ - 1, !.result = p.element, !.state = _STATE_FINISHED]
    ELSE p

\* the close of a file leaves the file as the current node
EndtagStaysOnFile(p, tag) ==
    IF tag = "div" /\ p.state = _STATE_FILE_ROOT
    THEN [p EXCEPT !.state = _STATE_DIRECTORY_CONTENTS]
    ELSE IF tag = "div" /\ p.state = _STATE_DIRECTORY_CONTENTS
    THEN [p EXCEPT !.state = _STATE_DIRECTORY_ROOT]
    ELSE p

\* str.strip() on a name: the blank words at both ends are dropped
RECURSIVE strip(_)
strip(name) ==
    IF name = <<>> THEN name
    ELSE IF Head(name) = " " THEN strip(Tail(name))
    ELSE IF name[Len(name)] = " " THEN strip(SubSeq(name, 1, Len(name) - 1))
    ELSE name

\* DocumentsTreeParser.handle_endtag; reading a field of None raises
documents_handle_endtag(p, tag) ==
    IF tag # "div" THEN p
    ELSE IF p.state \in {_STATE_FILE_ROOT, _STATE_DIRECTORY_ROOT}
            /\ p.element = NoneElement
    THEN [p EXCEPT !.raised = TRUE]
    ELSE IF p.state = _STATE_FILE_ROOT
    THEN [p EXCEPT !.heap[p.element].name = strip(@),
                   !.element = p.heap[p.element].parent,
                   !.state = _STATE_DIRECTORY_CONTENTS]
    ELSE IF p.state = _STATE_DIRECTORY_CONTENTS
    THEN [p EXCEPT !.state = _STATE_DIRECTORY_ROOT]
    ELSE IF p.state = _STATE_DIRECTORY_ROOT
    THEN IF p.depth - 1 > 0
         THEN [p EXCEPT !.heap[p.element].name = strip(@),
                        !.depth = @ - 1,
                        !.element = p.heap[p.element].parent,
                        !.state = _STATE_DIRECTORY_CONTENTS]
         ELSE [p EXCEPT !.heap[p.element].name = strip(@),
                        !.depth = @ - 1,
                        !.result = p.element,
                        !.state = _STATE_FINISHED]
    ELSE p

\* no tree: what fetch() returns on a failure
NoneTree == [none |-> TRUE]

\* DocumentsTreeFetcher.__init__; fetched lists the fetch() calls made with
\* the object, each with its response and the value returned
DocumentsTreeFetcher == [result |-> NoneTree, fetched |-> <<>>]

\* HTMLParser.feed on a page, a sequence of tokens
RECURSIVE feed(_, _)
feed(p, tokens) ==
    IF tokens = <<>> \/ p.raised THEN p
    ELSE LET token == Head(tokens)
         IN feed(IF token.kind = "starttag"
                 THEN documents_handle_starttag(p, token.tag, token.attrs)
                 ELSE IF token.kind = "data"
                 THEN documents_handle_data(p, token.data)
                 ELSE documents_handle_endtag(p, token.tag),
                 Tail(tokens))

\* the tree a parser holds as its result
ResultOf(parser) ==
    IF parser.result = NoneElement THEN NoneTree
    ELSE [heap |-> parser.heap, root |-> parser.result]

\* DocumentsTreeFetcher.fetch, lines 129-151: self.result afterwards and the
\* value returned
fetch(self, response) ==
    IF response.raised THEN [result |-> self.result, returned |-> NoneTree]
    ELSE IF response.status_code = 200
    THEN LET parser == feed(DocumentsTreeParser, response.text)
             tree == IF parser.result # NoneElement THEN ResultOf(parser)
                     ELSE self.result
         IN [result |-> tree, returned |-> tree]
    ELSE [result |-> self.result, returned |-> NoneTree]

\* ------------------------------------------------ court.py, CourtListParser
_STATE_AWAIT_OPTION == 1
_STATE_AWAIT_NAME == 2
_STATE_NAME == 3

UpperCase ==
    {"A", "B", "C", "D", "E", "F", "G", "H", "I", "J", "K", "L", "M",
     "N", "O", "P", "Q", "R", "S", "T", "U", "V", "W", "X", "Y", "Z"}
Digits == {"0", "1", "2", "3", "4", "5", "6", "7", "8", "9"}

\* `identifier and re.search(r"\A[A-Z]\d{4}\Z", identifier)`, line 186;
\* identifiers are sequences of characters, <<None>> is None
IsCourtIdentifier(identifier) ==
    /\ identifier # NoneText
    /\ Len(identifier) = 5
    /\ identifier[1] \in UpperCase
    /\ \A k \in 2..5 : identifier[k] \in Digits

\* Court(identifier)
Court(identifier) == [name |-> NoneName, identifier |-> identifier]

\* CourtListParser.__init__; `court` holds the court at hand, if any
CourtListParser == [state |-> _STATE_VOID, result |-> <<>>, court |-> <<>>]

\* lines 182-184: the last value attribute is the identifier
RECURSIVE ValueOf(_)
ValueOf(attrs) ==
    IF attrs = <<>> THEN NoneText
    ELSE IF attrs[Len(attrs)].key = "value" THEN attrs[Len(attrs)].value
    ELSE ValueOf(SubSeq(attrs, 1, Len(attrs) - 1))

\* CourtListParser.handle_starttag
court_handle_starttag(p, tag, attrs) ==
    IF tag = "select"
    THEN IF \E k \in 1..Len(attrs) :
               attrs[k].key = "name" /\ attrs[k].value = <<"registergericht">>
         THEN [p EXCEPT !.state = _STATE_AWAIT_OPTION] ELSE p
    ELSE IF tag = "option"
    THEN IF p.state # _STATE_AWAIT_OPTION THEN p
         ELSE IF IsCourtIdentifier(ValueOf(attrs))
         THEN [p EXCEPT !.court = <<Court(ValueOf(attrs))>>,
                        !.state = _STATE_AWAIT_NAME]
         ELSE [p EXCEPT !.state = _STATE_NAME]
    ELSE p

\* CourtListParser.handle_data
court_handle_data(p, data) ==
    IF p.state = _STATE_AWAIT_NAME
    THEN [p EXCEPT !.court[1].name = strip(data), !.state = _STATE_NAME]
    ELSE p

\* CourtListParser.handle_endtag
court_handle_endtag(p, tag) ==
    IF tag = "select"
    THEN IF p.state = _STATE_AWAIT_OPTION THEN [p EXCEPT !.state = _STATE_VOID] ELSE p
    ELSE IF tag = "option"
    THEN IF p.state = _STATE_NAME
         THEN IF p.court # <<>>
              THEN [p EXCEPT !.state = _STATE_AWAIT_OPTION,
                             !.result = Append(@, p.court[1]),
                             !.court = <<>>]
              ELSE [p EXCEPT !.state = _STATE_AWAIT_OPTION]
         ELSE p
    ELSE p

\* no token of the search form was fed yet; `options` are the options with a
\* court identifier met inside the court <select>
NoForm ==
    [fed |-> 0, in_select |-> FALSE, in_option |-> FALSE, counted |-> FALSE,
     named |-> FALSE, plain |-> TRUE, options |-> <<>>]

\* ------------------------------------- entity.py, __set_capital on characters
\* Texts are sequences of characters here; amounts are counted in hundredths.
DigitChars == <<"0", "1", "2", "3", "4", "5", "6", "7", "8", "9">>
DigitValue(c) == (CHOOSE n \in 1..10 : DigitChars[n] = c) - 1

AllDigits(s) == \A k \in 1..Len(s) : s[k] \in Digits

\* (?:\.\d{3})+
RECURSIVE Groups(_)
Groups(s) ==
    /\ Len(s) >= 4
    /\ s[1] = "."
    /\ AllDigits(SubSeq(s, 2, 4))
    /\ Len(s) = 4 \/ Groups(SubSeq(s, 5, Len(s)))

\* (?:(?:\d{1,3})(?:\.\d{3})+|\d+)
IsInteger(s) ==
    \/ s # <<>> /\ AllDigits(s)
    \/ \E h \in 1..3 :
          /\ h < Len(s)
          /\ AllDigits(SubSeq(s, 1, h))
          /\ Groups(SubSeq(s, h + 1, Len(s)))

\* ((?:(?:\d{1,3})(?:\.\d{3})+|\d+)(?:,\d{1,2})?)
IsAmount(s) ==
    \/ IsInteger(s)
    \/ \E k \in 1..Len(s) :
          /\ s[k] = ","
          /\ IsInteger(SubSeq(s, 1, k - 1))
          /\ Len(s) - k \in {1, 2}
          /\ AllDigits(SubSeq(s, k + 1, Len(s)))

\* (EUR|DEM|€)
CurrencyTexts == {<<"E", "U", "R">>, <<"D", "E", "M">>, <<"€">>}
CurrencyName(c) ==
    IF c = <<"E", "U", "R">> THEN "EUR" ELSE IF c = <<"D", "E", "M">> THEN "DEM" ELSE "€"

EndsWith(s, t) == Len(s) >= Len(t) /\ SubSeq(s, Len(s) - Len(t) + 1, Len(s)) = t

\* str.replace(old, new) for one character; new is <<>> or one character
replace(s, old, new) ==
    IF s = <<>> THEN s
    ELSE LET Piece(k) == IF s[k] = old THEN new ELSE <<s[k]>>
             RECURSIVE Join(_)
             Join(k) == IF k = 0 THEN <<>> ELSE Join(k - 1) \o Piece(k)
         IN Join(Len(s))

\* the number the digits denote
RECURSIVE DecimalValue(_)
DecimalValue(s) ==
    IF s = <<>> THEN 0
    ELSE DecimalValue(SubSeq(s, 1, Len(s) - 1)) * 10 + DigitValue(s[Len(s)])

\* the digits after the period are dropped
FloatOfWhole(s) ==
    IF \E k \in 1..Len(s) : s[k] = "."
    THEN DecimalValue(SubSeq(s, 1, (CHOOSE n \in 1..Len(s) : s[n] = ".") - 1)) * 100
    ELSE DecimalValue(s) * 100

\* float() of digits with at most two digits after a period, in hundredths
float_of(s) ==
    IF \E k \in 1..Len(s) : s[k] = "."
    THEN LET k == CHOOSE n \in 1..Len(s) : s[n] = "." /\ \A m \in 1..(n - 1) : s[m] # "."
             decimals == SubSeq(s, k + 1, Len(s))
         IN DecimalValue(SubSeq(s, 1, k - 1)) * 100
            + (IF Len(decimals) = 1 THEN DecimalValue(decimals) * 10
               ELSE DecimalValue(decimals))
    ELSE DecimalValue(s) * 100

\* __set_capital, lines 282-287: white space, the amount, white space, the
\* currency if any, white space
set_capital_of_text(r, data) ==
    LET body == strip(data)
        currency == IF \E c \in CurrencyTexts : EndsWith(body, c)
                    THEN CHOOSE c \in CurrencyTexts : EndsWith(body, c)
                    ELSE <<>>
        amount == strip(SubSeq(body, 1, Len(body) - Len(currency)))
    IN IF IsAmount(amount)
       THEN [r EXCEPT !.capital = float_of(replace(replace(amount, ".", <<>>), ",", <<".">>)),
                      !.capital_currency = IF currency = <<>> THEN None
                                           ELSE CurrencyName(currency)]
       ELSE r

\* no capital text is at hand
NoCapitalText ==
    [text |-> <<>>, head |-> <<>>, groups |-> <<>>, separator |-> <<>>,
     decimals |-> <<>>, spaces |-> <<0, 0, 0>>, currency |-> <<>>]

\* ------------------------------------------------ __main__.py, the rows option
\* RuntimeOptions.__init__, lines 49-58
RuntimeOptions ==
    [rows |-> <<0, 0>>, delay |-> 10, request_limit |-> 60,
     limit_interval |-> 60 * 60, search_policy |-> SEARCH_POLICY_STRICT]

\* re.match(r"^(\d*),(\d*)$", raw_value), line 70: the place of the comma; 0
\* when there is no match
RowsMatch(raw_value) ==
    IF \E k \in 1..Len(raw_value) :
          /\ raw_value[k] = ","
          /\ AllDigits(SubSeq(raw_value, 1, k - 1))
          /\ AllDigits(SubSeq(raw_value, k + 1, Len(raw_value)))
    THEN CHOOSE k \in 1..Len(raw_value) : raw_value[k] = ","
    ELSE 0

\* RuntimeOptions.set_option for the option `rows`, lines 69-84; texts are
\* sequences of characters
set_option(self, raw_value) ==
    LET match == RowsMatch(raw_value)
        raw_lower == SubSeq(raw_value, 1, match - 1)
        raw_upper == SubSeq(raw_value, match + 1, Len(raw_value))
        lower == IF raw_lower # <<>> THEN DecimalValue(raw_lower) ELSE 0
        upper == IF raw_upper # <<>> THEN DecimalValue(raw_upper) ELSE 0
    IN IF match # 0
       THEN [self EXCEPT !.rows =
                <<IF lower >= 0 /\ 0 <= upper /\ upper < lower THEN upper ELSE lower,
                  upper>>]
       ELSE self

\* no rows option was read and no input row either
NoReader == [raw_value |-> <<>>, rows |-> <<>>]

\* ------------------------------------------------ the session on its own
SessionConfigs ==
    {c \in [delay : -1..MaxDelay, request_limit : -1..MaxLimit,
            limit_interval : -1..MaxInterval] :
        ~ConstructorRaises(c.request_limit, c.limit_interval)}

InitSession ==
    /\ \E c \in SessionConfigs :
          session = NewSession(c.delay, c.request_limit, c.limit_interval)
    /\ now = StartTime
    /\ op = "init"
    /\ reached = FALSE
    /\ call = [at |-> StartTime, before |-> session]
    /\ returns = <<>>
    /\ pc = "session"
    /\ options = [search_policy |-> SEARCH_POLICY_STRICT, delay |-> session.delay,
                  request_limit |-> session.request_limit,
                  limit_interval |-> session.limit_interval]
    /\ court_list = CourtList(<<>>)
    /\ i = -1
    /\ record = NoneRecord
    /\ search_parameters = SearchParameters(None, None, None, FALSE, None)
    /\ search_policy = SEARCH_POLICY_STRICT
    /\ search_result = NoneResult
    /\ result = NoneEntry
    /\ requests = <<>>
    /\ throttles = 0
    /\ emitted = <<>>
    /\ balance_dates = <<>>
    /\ shareholders = <<>>
    /\ log = {}
    /\ entity_parser = LegalEntityInformationParser
    /\ page = NoPage
    /\ entity_information = NoneInformation
    /\ capital_text = NoCapitalText
    /\ documents_parser = DocumentsTreeParser
    /\ shareholder_lists = NoneLists
    /\ fetcher = DocumentsTreeFetcher
    /\ reader = NoReader
    /\ markers = NoMarkers
    /\ court_parser = CourtListParser
    /\ form = NoForm
    /\ lookups = {}

\* one second passes
Tick ==
    /\ now < MaxTime
    /\ now' = now + 1
    /\ op' = "tick"
    /\ UNCHANGED <<session, reached, call, returns>>
    /\ UNCHANGED mainVars
    /\ UNCHANGED entityVars
    /\ UNCHANGED documentVars
    /\ UNCHANGED courtVars

\* a caller asks session.is_limit_reached()
CallIsLimitReached ==
    /\ pc = "session"
    /\ now <= MaxTime
    /\ call' = [at |-> now, before |-> session]
    /\ LET r == is_limit_reached(session, now)
       IN /\ reached' = r.ret
          /\ session' = r.session
    /\ op' = "is_limit_reached"
    /\ UNCHANGED <<now, returns>>
    /\ UNCHANGED mainVars
    /\ UNCHANGED entityVars
    /\ UNCHANGED documentVars
    /\ UNCHANGED courtVars

\* a caller runs session.make_limited_request()
CallMakeLimitedRequest ==
    /\ pc = "session"
    /\ now <= MaxTime
    /\ call' = [at |-> now, before |-> session]
    /\ Len(returns) < MaxCalls
    /\ \E r \in make_limited_request(session, now) :
          /\ session' = r.session
          /\ now' = r.now
          /\ returns' = Append(returns, r.now)
    /\ op' = "make_limited_request"
    /\ UNCHANGED reached
    /\ UNCHANGED mainVars
    /\ UNCHANGED entityVars
    /\ UNCHANGED documentVars
    /\ UNCHANGED courtVars

NextSession == Tick \/ CallIsLimitReached \/ CallMakeLimitedRequest

SpecSession == InitSession /\ [][NextSession]_vars

\* ------------------------------------------------------------ __main__.py
\* the registry courts of the search form, as CourtListParser delivers them
Courts ==
    << [name |-> <<"a", "(", "b", ")">>, identifier |-> "K1101"],
       [name |-> <<"c", "d">>, identifier |-> "R2201"] >>

\* court column of the input rows: absent, an exact name, an abbreviation in
\* parentheses, and a name sharing nothing with any court
InputCourts == {NoneName, <<"c", "d">>, <<"b">>, <<"x">>}

InputRecords ==
    [name : {"acme"}, registry_court : InputCourts,
     registry_type : {"HRB"}, registry_id : {"1"}]

\* RuntimeOptions after the command line was read (set_option accepts only
\* positive delay, request-limit and limit-interval)
MainOptions ==
    [search_policy : {SEARCH_POLICY_STRICT, SEARCH_POLICY_NAME, SEARCH_POLICY_KEYWORDS},
     delay : {1, MaxDelay}, request_limit : {1}, limit_interval : {MaxInterval}]

Init ==
    /\ options \in MainOptions
    /\ session = NewSession(-1, -1, -1)
    /\ now = StartTime
    /\ op = "init"
    /\ reached = FALSE
    /\ call = [at |-> StartTime, before |-> session]
    /\ returns = <<>>
    /\ pc = "start"
    /\ court_list = CourtList(<<>>)
    /\ i = -1
    /\ record = NoneRecord
    /\ search_parameters = SearchParameters(None, None, None, FALSE, None)
    /\ search_policy = SEARCH_POLICY_STRICT
    /\ search_result = NoneResult
    /\ result = NoneEntry
    /\ requests = <<>>
    /\ throttles = 0
    /\ emitted = <<>>
    /\ balance_dates = <<>>
    /\ shareholders = <<>>
    /\ log = {}
    /\ entity_parser = LegalEntityInformationParser
    /\ page = NoPage
    /\ entity_information = NoneInformation
    /\ capital_text = NoCapitalText
    /\ documents_parser = DocumentsTreeParser
    /\ shareholder_lists = NoneLists
    /\ fetcher = DocumentsTreeFetcher
    /\ reader = NoReader
    /\ markers = NoMarkers
    /\ court_parser = CourtListParser
    /\ form = NoForm
    /\ lookups = {}

\* an outbound request as it leaves: what it is and how many
\* make_limited_request() calls were made since the request before it
Request(kind, stage, params, index, outcome) ==
    [kind |-> kind, stage |-> stage, params |-> params, index |-> index,
     outcome |-> outcome, throttles |-> throttles]

\* what a request delivered: -1 for None, else the number of results
Outcome(sr) == IF sr = NoneResult THEN -1 ELSE Len(sr)

NoIdentifierNever(s) == FALSE

\* line 227, `if not session.identifier`: None and the empty cookie are falsy
NoIdentifier(s) == s.identifier \in {None, ""}

\* lines 222-231: Session(...), session.initialize(), exit without identifier
Initialize ==
    /\ pc = "start"
    /\ \E id \in {None, "", "sid"} :
          /\ session' = [NewSession(options.delay, options.request_limit,
                                    options.limit_interval) EXCEPT !.identifier = id]
          /\ pc' = IF NoIdentifier(session') THEN "exit" ELSE "courts"
    /\ op' = "initialize"
    /\ UNCHANGED <<now, reached, call, returns, options, court_list, i, record,
                   search_parameters, search_policy, search_result, result,
                   requests, throttles, emitted, shareholders, log>>
    /\ UNCHANGED balance_dates
    /\ UNCHANGED entityVars
    /\ UNCHANGED documentVars
    /\ UNCHANGED courtVars
    /\ UNCHANGED reader

\* lines 233-242: CourtListFetcher.run(), exit without a court list.
\* run() returns None (court_list stays unset) unless the status is 200.
FetchCourtList ==
    /\ pc = "courts"
    /\ \/ /\ pc' = "exit"
          /\ UNCHANGED court_list
       \/ \E parsed \in {<<>>, Courts} :
             /\ court_list' = CourtList(parsed)
             /\ pc' = IF Len(court_list'.name_map) = 0 THEN "exit" ELSE "loop"
    /\ op' = "fetch_court_list"
    /\ UNCHANGED <<session, now, reached, call, returns, options, i, record,
                   search_parameters, search_policy, search_result, result,
                   requests, throttles, emitted, shareholders, log>>
    /\ UNCHANGED balance_dates
    /\ UNCHANGED entityVars
    /\ UNCHANGED documentVars
    /\ UNCHANGED courtVars
    /\ UNCHANGED reader

\* lines 266-274 and 391: the reader yields the next row, or the input ends
NextRecord ==
    /\ pc = "loop"
    /\ \/ /\ pc' = "finished"
          /\ UNCHANGED <<i, record, requests, log>>
       \/ /\ i + 1 < MaxRows
          /\ i' = i + 1
          /\ requests' = <<>>
          /\ log' = {}
          /\ \E rec \in InputRecords \cup {NoneRecord} :
                /\ record' = rec
                /\ pc' = IF rec = NoneRecord THEN "loop" ELSE "limit"
    /\ op' = "next_record"
    /\ UNCHANGED <<session, now, reached, call, returns, options, court_list,
                   search_parameters, search_policy, search_result, result,
                   throttles, emitted, shareholders>>
    /\ UNCHANGED balance_dates
    /\ UNCHANGED entityVars
    /\ UNCHANGED documentVars
    /\ UNCHANGED courtVars
    /\ UNCHANGED reader

\* lines 276-281: session.is_limit_reached()
CheckLimit ==
    /\ pc = "limit"
    /\ call' = [at |-> now, before |-> session]
    /\ LET r == is_limit_reached(session, now)
       IN /\ reached' = r.ret
          /\ session' = r.session
          /\ log' = IF r.ret /\ i > 0 THEN log \cup {"limit_reached"} ELSE log
    /\ pc' = "throttle"
    /\ op' = "is_limit_reached"
    /\ UNCHANGED <<now, returns, options, court_list, i, record, search_parameters,
                   search_policy, search_result, result, requests, throttles,
                   emitted, shareholders>>
    /\ UNCHANGED balance_dates
    /\ UNCHANGED entityVars
    /\ UNCHANGED documentVars
    /\ UNCHANGED courtVars
    /\ UNCHANGED reader

\* line 283: session.make_limited_request()
Throttle ==
    /\ pc = "throttle"
    /\ call' = [at |-> now, before |-> session]
    /\ \E r \in make_limited_request(session, now) :
          /\ session' = r.session
          /\ now' = r.now
          /\ returns' = Append(returns, r.now)
    /\ throttles' = throttles + 1
    /\ pc' = "prepare"
    /\ op' = "make_limited_request"
    /\ UNCHANGED <<reached, options, court_list, i, record, search_parameters,
                   search_policy, search_result, result, requests, emitted,
                   shareholders, log>>
    /\ UNCHANGED balance_dates
    /\ UNCHANGED entityVars
    /\ UNCHANGED documentVars
    /\ UNCHANGED courtVars
    /\ UNCHANGED reader

\* lines 293-303: the court found for the record's court name
ResolveCourt(cl, name) ==
    LET exact == get_from_name(cl, name)
    IN IF exact # NoneCourt THEN exact ELSE get_closest_from_name(cl, name)

\* the stage the record before ended at is kept
KeepsPolicy(opts) == search_policy

StartsStrict(opts) == SEARCH_POLICY_STRICT

\* line 290, `search_policy = options.search_policy`: the stage a record starts at
StartingPolicy(opts) == opts.search_policy

\* lines 285-310: search parameters, starting policy, court resolution.
\* Line 305 reads court.identifier whatever the lookups returned.
PrepareSearch ==
    /\ pc = "prepare"
    /\ search_policy' = StartingPolicy(options)
    /\ search_result' = NoneResult
    /\ LET params == SearchParameters(record.name, record.registry_type,
                                      record.registry_id, TRUE,
                                      KEYWORDS_OPTION_EQUAL_NAME)
       IN IF record.registry_court # NoneName
          THEN LET exact == get_from_name(court_list, record.registry_court)
                   court == ResolveCourt(court_list, record.registry_court)
               IN IF court = NoneCourt
                  THEN /\ log' = log \cup {"no_court"}
                       /\ search_parameters' = params
                       /\ pc' = "crashed"
                  ELSE /\ log' = IF exact = NoneCourt THEN log \cup {"closest_court"}
                                 ELSE log
                       /\ search_parameters' =
                              [params EXCEPT !.registry_court = court.identifier]
                       /\ pc' = "strict"
          ELSE /\ search_parameters' = params
               /\ log' = log
               /\ pc' = "strict"
    /\ op' = "prepare"
    /\ UNCHANGED <<session, now, reached, call, returns, options, court_list, i,
                   record, result, requests, throttles, emitted, shareholders>>
    /\ UNCHANGED balance_dates
    /\ UNCHANGED entityVars
    /\ UNCHANGED documentVars
    /\ UNCHANGED courtVars
    /\ UNCHANGED reader

RunsStageOrEarlier(policy, stage) == policy <= stage

\* lines 313, 324, 339: `if search_policy == SEARCH_POLICY_...`
RunsStage(policy, stage) == policy = stage

EscalatesOnFailure(sr) == sr = NoneResult \/ IsEmptyResult(sr)

EscalatesAlways(sr) == sr # NoneResult

\* lines 316, 331: `search_result is not None and len(search_result) == 0`
Escalates(sr) == IsEmptyResult(sr)

ClearRegistryKeepsCourt(params) ==
    [params EXCEPT !.registry_type = None, !.registry_id = None]

\* lines 325-327 and 340-342: registry type, id and court are set to None
ClearRegistry(params) ==
    [params EXCEPT !.registry_type = None, !.registry_id = None,
                   !.registry_court = None]

\* lines 312-321: the strict stage
SearchStrict ==
    /\ pc = "strict"
    /\ IF RunsStage(search_policy, SEARCH_POLICY_STRICT)
       THEN \E sr \in SearchOutcomes :
               /\ search_result' = sr
               /\ requests' = Append(requests,
                     Request("search", search_policy, search_parameters, -1, Outcome(sr)))
               /\ throttles' = 0
               /\ IF Escalates(sr)
                  THEN /\ search_policy' = SEARCH_POLICY_NAME
                       /\ log' = log \cup {"retry_name"}
                  ELSE UNCHANGED <<search_policy, log>>
       ELSE UNCHANGED <<search_result, requests, throttles, search_policy, log>>
    /\ pc' = "name"
    /\ op' = "search_strict"
    /\ UNCHANGED <<session, now, reached, call, returns, options, court_list, i,
                   record, search_parameters, result, emitted, shareholders>>
    /\ UNCHANGED balance_dates
    /\ UNCHANGED entityVars
    /\ UNCHANGED documentVars
    /\ UNCHANGED courtVars
    /\ UNCHANGED reader

\* lines 323-336: the name stage
SearchName ==
    /\ pc = "name"
    /\ IF RunsStage(search_policy, SEARCH_POLICY_NAME)
       THEN LET params == ClearRegistry(search_parameters)
            IN /\ search_parameters' = params
               /\ \E sr \in SearchOutcomes :
                     /\ search_result' = sr
                     /\ requests' = Append(requests,
                           Request("search", search_policy, params, -1, Outcome(sr)))
                     /\ throttles' = 0
                     /\ IF Escalates(sr)
                        THEN /\ search_policy' = SEARCH_POLICY_KEYWORDS
                             /\ log' = log \cup {"retry_keywords"}
                        ELSE UNCHANGED <<search_policy, log>>
       ELSE UNCHANGED <<search_parameters, search_result, requests, throttles,
                        search_policy, log>>
    /\ pc' = "keywords"
    /\ op' = "search_name"
    /\ UNCHANGED <<session, now, reached, call, returns, options, court_list, i,
                   record, result, emitted, shareholders>>
    /\ UNCHANGED balance_dates
    /\ UNCHANGED entityVars
    /\ UNCHANGED documentVars
    /\ UNCHANGED courtVars
    /\ UNCHANGED reader

\* lines 338-351: the keywords stage; an empty result ends the record
SearchKeywords ==
    /\ pc = "keywords"
    /\ IF RunsStage(search_policy, SEARCH_POLICY_KEYWORDS)
       THEN LET params == [ClearRegistry(search_parameters)
                                  EXCEPT !.keywords_option = KEYWORDS_OPTION_ALL]
            IN /\ search_parameters' = params
               /\ \E sr \in SearchOutcomes :
                     /\ search_result' = sr
                     /\ requests' = Append(requests,
                           Request("search", search_policy, params, -1, Outcome(sr)))
                     /\ throttles' = 0
                     /\ IF IsEmptyResult(sr)
                        THEN /\ log' = log \cup {"no_result"}
                             /\ pc' = "loop"
                        ELSE /\ log' = log \cup {"maybe_not_identical"}
                             /\ pc' = "check"
       ELSE /\ pc' = "check"
            /\ UNCHANGED <<search_parameters, search_result, requests, throttles, log>>
    /\ op' = "search_keywords"
    /\ UNCHANGED <<session, now, reached, call, returns, options, court_list, i,
                   record, search_policy, result, emitted, shareholders>>
    /\ UNCHANGED balance_dates
    /\ UNCHANGED entityVars
    /\ UNCHANGED documentVars
    /\ UNCHANGED courtVars
    /\ UNCHANGED reader

LacksEntityInformationNever(entry) == FALSE

\* line 364, `if not result.record_has_content(RECORD_CONTENT_LEGAL_ENTITY_INFORMATION)`
LacksEntityInformation(entry) == ~entry.legal_entity_information

\* lines 353-366: no result list, too many results, missing content flag
CheckResult ==
    /\ pc = "check"
    /\ IF search_result = NoneResult
       THEN /\ log' = log \cup {"search_failed"}
            /\ pc' = "loop"
            /\ UNCHANGED result
       ELSE IF Len(search_result) > 1
       THEN /\ log' = log \cup {"too_many"}
            /\ pc' = "loop"
            /\ UNCHANGED result
       ELSE IF Len(search_result) = 0
       THEN /\ pc' = "crashed"     \* search_result[0] raises IndexError
            /\ UNCHANGED <<result, log>>
       ELSE /\ result' = search_result[1]
            /\ IF LacksEntityInformation(search_result[1])
               THEN log' = log \cup {"no_indicator"} /\ pc' = "loop"
               ELSE log' = log /\ pc' = "detail"
    /\ op' = "check_result"
    /\ UNCHANGED <<session, now, reached, call, returns, options, court_list, i,
                   record, search_parameters, search_policy, search_result,
                   requests, throttles, emitted, shareholders>>
    /\ UNCHANGED balance_dates
    /\ UNCHANGED entityVars
    /\ UNCHANGED documentVars
    /\ UNCHANGED courtVars
    /\ UNCHANGED reader

WriteStartingPolicy(row, policy) == [row |-> row, policy |-> SEARCH_POLICY_STRICT]

\* LegalEntityInformationFileWriter.write(entity, search_policy): the line
\* written for an input row ends with the search policy it was given
entity_information_writer_write(row, policy) == [row |-> row, policy |-> policy]

AbandonsNever(information) == FALSE

\* line 372, `if entity_information is None`: the record is given up
Abandons(information) == information = NoneInformation

FetchesDocumentsNever(entry) == FALSE

\* line 381, `if result.record_has_content(RECORD_CONTENT_DOCUMENTS)`
FetchesDocuments(entry) == entry.documents

\* lines 368-381: LegalEntityInformationFetcher.fetch() and the two writers
FetchDetail ==
    /\ pc = "detail"
    /\ \E information \in {NoneInformation, LegalEntityInformation} :
          /\ requests' = Append(requests,
                Request("detail", search_policy, search_parameters, result.index,
                        IF information = NoneInformation THEN -1 ELSE 1))
          /\ IF Abandons(information)
             THEN /\ log' = log \cup {"no_detail"}
                  /\ pc' = "loop"
                  /\ UNCHANGED <<emitted, balance_dates>>
             ELSE /\ emitted' = Append(emitted,
                        entity_information_writer_write(i + 1, search_policy))
                  /\ balance_dates' = Append(balance_dates, i + 1)
                  /\ pc' = IF FetchesDocuments(result) THEN "documents" ELSE "loop"
                  /\ UNCHANGED log
    /\ throttles' = 0
    /\ op' = "fetch_detail"
    /\ UNCHANGED <<session, now, reached, call, returns, options, court_list, i,
                   record, search_parameters, search_policy, search_result,
                   result, shareholders>>
    /\ UNCHANGED entityVars
    /\ UNCHANGED documentVars
    /\ UNCHANGED courtVars
    /\ UNCHANGED reader

WritesShareholdersAlways(documents) == TRUE

\* lines 385-389: the shareholder lists are written unless `documents is None`
WritesShareholders(documents) == documents # None

\* lines 381-389: DocumentsTreeFetcher.fetch() and the shareholder writer
FetchDocuments ==
    /\ pc = "documents"
    /\ \E documents \in {None, "tree"} :
          /\ requests' = Append(requests,
                Request("documents", search_policy, search_parameters, result.index,
                        IF documents = None THEN -1 ELSE 1))
          /\ IF WritesShareholders(documents)
             THEN shareholders' = Append(shareholders, i + 1) /\ UNCHANGED log
             ELSE log' = log \cup {"no_shareholders"} /\ UNCHANGED shareholders
    /\ throttles' = 0
    /\ pc' = "loop"
    /\ op' = "fetch_documents"
    /\ UNCHANGED <<session, now, reached, call, returns, options, court_list, i,
                   record, search_parameters, search_policy, search_result,
                   result, emitted, balance_dates>>
    /\ UNCHANGED entityVars
    /\ UNCHANGED documentVars
    /\ UNCHANGED courtVars
    /\ UNCHANGED reader

\* time passes while main() runs
Elapse ==
    /\ pc \notin {"exit", "crashed", "finished"}
    /\ now < StartTime + MainHorizon
    /\ Tick

Next ==
    \/ Initialize \/ FetchCourtList \/ NextRecord \/ CheckLimit \/ Throttle
    \/ PrepareSearch \/ SearchStrict \/ SearchName \/ SearchKeywords
    \/ CheckResult \/ FetchDetail \/ FetchDocuments \/ Elapse

Spec == Init /\ [][Next]_vars

\* ---------------------------------------------- the detail fetch on its own
MaxTokens == 16

\* the tags and the text nodes a detail page is made of
Tags == {"h3", "td", "b", "div", "select", "option", "p"}
\* a registry line whose type is none of REGISTRY_TYPES
OtherCodeLine == <<"Berlin", "HRX", "123">>
\* a registry line whose type is one of REGISTRY_TYPES
KnownCodeLine(data) ==
    /\ Len(data) >= 3
    /\ \E t \in 1..Len(REGISTRY_TYPES) : REGISTRY_TYPES[t] = data[Len(data) - 1]
Texts ==
    {<<HEADING>>, <<"Fehler">>, <<COURT_MARK, "Berlin">>, <<"Berlin", "HRB", "123">>,
     OtherCodeLine,
     <<"-", "acme">>, <<KEYWORD_LEGAL_STRUCTURE>>, <<KEYWORD_CAPITAL>>,
     <<KEYWORD_ENTRY_DATE>>, <<KEYWORD_DELETION_DATE>>, <<KEYWORD_BALANCE>>,
     <<KEYWORD_ADDRESS>>, <<"1.000,50", "EUR">>, <<"01.02.2003">>,
     <<"10115", "Berlin">>}

\* main() has a unique search result and is about to fetch its detail page
InitEntity ==
    /\ session = [NewSession(1, 1, MaxInterval) EXCEPT !.identifier = "sid"]
    /\ now = StartTime
    /\ op = "init"
    /\ reached = FALSE
    /\ call = [at |-> StartTime, before |-> session]
    /\ returns = <<>>
    /\ pc = "fetch"
    /\ options = [search_policy |-> SEARCH_POLICY_STRICT, delay |-> 1,
                  request_limit |-> 1, limit_interval |-> MaxInterval]
    /\ court_list = CourtList(Courts)
    /\ i = 0
    /\ record = [name |-> "acme", registry_court |-> NoneName,
                 registry_type |-> "HRB", registry_id |-> "123"]
    /\ search_parameters = SearchParameters(record.name, record.registry_type,
                                            record.registry_id, TRUE,
                                            KEYWORDS_OPTION_EQUAL_NAME)
    /\ search_policy = options.search_policy
    /\ result = [index |-> 0, legal_entity_information |-> TRUE, documents |-> FALSE]
    /\ search_result = <<result>>
    /\ requests = <<>>
    /\ throttles = 0
    /\ emitted = <<>>
    /\ balance_dates = <<>>
    /\ shareholders = <<>>
    /\ log = {}
    /\ entity_parser = LegalEntityInformationParser
    /\ page = NoPage
    /\ entity_information = NoneInformation
    /\ capital_text = NoCapitalText
    /\ documents_parser = DocumentsTreeParser
    /\ shareholder_lists = NoneLists
    /\ fetcher = DocumentsTreeFetcher
    /\ reader = NoReader
    /\ markers = NoMarkers
    /\ court_parser = CourtListParser
    /\ form = NoForm
    /\ lookups = {}

\* parser.feed() reaches a start tag
FeedStarttag ==
    /\ pc = "fetch"
    /\ page.fed < MaxTokens
    /\ \E tag \in Tags :
          /\ entity_parser' = handle_starttag(entity_parser, tag)
          /\ page' = [page EXCEPT !.fed = @ + 1,
                                  !.in_h3 = IF tag = "h3" THEN TRUE ELSE @]
    /\ op' = "handle_starttag"
    /\ UNCHANGED <<session, now, reached, call, returns, entity_information,
                   capital_text>>
    /\ UNCHANGED mainVars
    /\ UNCHANGED documentVars
    /\ UNCHANGED courtVars

\* parser.feed() reaches a text node
FeedData ==
    /\ pc = "fetch"
    /\ page.fed < MaxTokens
    /\ \E data \in Texts :
          /\ entity_parser' = handle_data(entity_parser, data)
          /\ page' = [page EXCEPT !.fed = @ + 1,
                                  !.heading = @ \/ (page.in_h3 /\ InData(HEADING, data)),
                                  !.registry_line =
                                      IF entity_parser.state # STATE_AWAIT_REGISTRY_DETAIL
                                      THEN @
                                      ELSE IF KnownCodeLine(data) THEN "known"
                                      ELSE IF data = OtherCodeLine /\ @ = "none"
                                      THEN "other" ELSE @]
    /\ op' = "handle_data"
    /\ UNCHANGED <<session, now, reached, call, returns, entity_information,
                   capital_text>>
    /\ UNCHANGED mainVars
    /\ UNCHANGED documentVars
    /\ UNCHANGED courtVars

\* parser.feed() reaches an end tag
FeedEndtag ==
    /\ pc = "fetch"
    /\ page.fed < MaxTokens
    /\ \E tag \in Tags :
          /\ entity_parser' = handle_endtag(entity_parser, tag)
          /\ page' = [page EXCEPT !.fed = @ + 1,
                                  !.in_h3 = IF tag = "h3" THEN FALSE ELSE @]
    /\ op' = "handle_endtag"
    /\ UNCHANGED <<session, now, reached, call, returns, entity_information,
                   capital_text>>
    /\ UNCHANGED mainVars
    /\ UNCHANGED documentVars
    /\ UNCHANGED courtVars

\* LegalEntityInformationFetcher.fetch, lines 103-107: the status was 200,
\* the page was fed, the parser's result is returned
FetchReturns ==
    /\ pc = "fetch"
    /\ entity_information' = entity_parser.result
    /\ pc' = "fetched"
    /\ op' = "fetch"
    /\ UNCHANGED <<session, now, reached, call, returns, entity_parser, page,
                   capital_text>>
    /\ UNCHANGED <<options, court_list, i, record, search_parameters, search_policy,
                   search_result, result, requests, throttles, emitted,
                   balance_dates, shareholders, log>>
    /\ UNCHANGED documentVars
    /\ UNCHANGED courtVars
    /\ UNCHANGED reader

\* LegalEntityInformationFetcher.fetch, lines 108-111: another status or a
\* RequestException, None is returned
FetchFails ==
    /\ pc = "fetch"
    /\ page.fed = 0
    /\ entity_information' = NoneInformation
    /\ pc' = "fetched"
    /\ op' = "fetch_failed"
    /\ UNCHANGED <<session, now, reached, call, returns, entity_parser, page,
                   capital_text>>
    /\ UNCHANGED <<options, court_list, i, record, search_parameters, search_policy,
                   search_result, result, requests, throttles, emitted,
                   balance_dates, shareholders, log>>
    /\ UNCHANGED documentVars
    /\ UNCHANGED courtVars
    /\ UNCHANGED reader

\* main(), lines 372-379: the record is given up, or the two writers run
WriteEntity ==
    /\ pc = "fetched"
    /\ IF Abandons(entity_information)
       THEN /\ log' = log \cup {"no_detail"}
            /\ UNCHANGED <<emitted, balance_dates>>
       ELSE /\ emitted' = Append(emitted,
                  entity_information_writer_write(i + 1, search_policy))
            /\ balance_dates' = Append(balance_dates, i + 1)
            /\ UNCHANGED log
    /\ pc' = IF ~Abandons(entity_information) /\ FetchesDocuments(result)
             THEN "documents" ELSE "loop"
    /\ op' = "write_entity"
    /\ UNCHANGED <<session, now, reached, call, returns>>
    /\ UNCHANGED <<options, court_list, i, record, search_parameters, search_policy,
                   search_result, result, requests, throttles, shareholders>>
    /\ UNCHANGED entityVars
    /\ UNCHANGED documentVars
    /\ UNCHANGED courtVars
    /\ UNCHANGED reader

NextEntity ==
    \/ FeedStarttag \/ FeedData \/ FeedEndtag \/ FetchReturns \/ FetchFails
    \/ WriteEntity

SpecEntity == InitEntity /\ [][NextEntity]_vars

\* -------------------------------------------- the document page on its own

MaxDocTokens == 10

\* the attribute lists of the <div> tags of a document page
DocAttrs ==
    {<<[key |-> "id", value |-> "tree-root"]>>,
     <<[key |-> "class", value |-> "tree-open"]>>,
     <<[key |-> "class", value |-> "tree-closed"]>>,
     <<[key |-> "class", value |-> "tree-node"]>>,
     <<[key |-> "class", value |-> "tree-file"]>>,
     <<[key |-> "id", value |-> "tree-root"], [key |-> "class", value |-> "tree-open"]>>,
     <<>>}
DocTags == {"div", "a"}
DocTexts == {<<"Liste">>, <<" ">>}

\* what a <div> marks: the root, a contents container, a folder, a file
MarkerOf(attrs) ==
    IF attrs = <<[key |-> "id", value |-> "tree-root"]>> THEN "root"
    ELSE IF attrs \in {<<[key |-> "class", value |-> "tree-open"]>>,
                       <<[key |-> "class", value |-> "tree-closed"]>>} THEN "contents"
    ELSE IF attrs = <<[key |-> "class", value |-> "tree-node"]>> THEN "node"
    ELSE IF attrs = <<[key |-> "class", value |-> "tree-file"]>> THEN "file"
    ELSE "other"

\* the stream left the shapes under observation
BadMarkers(m) ==
    [m EXCEPT !.stack = <<>>, !.expected = <<>>, !.closed = FALSE,
              !.well_nested = FALSE, !.contained = FALSE]

\* the nearest enclosing folder of the open markers, 0 when there is none
RECURSIVE EnclosingFolder(_)
EnclosingFolder(stack) ==
    IF stack = <<>> THEN NoneElement
    ELSE IF stack[Len(stack)].kind \in {"root", "node"} THEN stack[Len(stack)].node
    ELSE IF stack[Len(stack)].kind = "file" THEN NoneElement
    ELSE EnclosingFolder(SubSeq(stack, 1, Len(stack) - 1))

\* a <div> opens: the markers are well nested while the root comes first and
\* once, and folders and files lie inside a folder; they are contained while
\* moreover every folder or file lies directly in a contents container that
\* lies directly in a folder
OpenMarker(m, attrs) ==
    LET kind == MarkerOf(attrs)
        top == IF m.stack = <<>> THEN "none" ELSE m.stack[Len(m.stack)].kind
        folder == EnclosingFolder(m.stack)
        node == Len(m.expected) + 1
    IN IF ~m.well_nested THEN m
       ELSE IF kind = "root"
       THEN IF m.stack = <<>> /\ m.expected = <<>>
            THEN [m EXCEPT !.stack = <<[kind |-> "root", node |-> 1]>>,
                           !.expected = <<[directory |-> TRUE, parent |-> NoneElement]>>]
            ELSE BadMarkers(m)
       ELSE IF kind = "contents"
       THEN IF top \in {"root", "node"}
            THEN [m EXCEPT !.stack = Append(@, [kind |-> "contents", node |-> 0])]
            ELSE BadMarkers(m)
       ELSE IF kind \in {"node", "file"}
       THEN IF folder # NoneElement /\ ~m.closed
            THEN [m EXCEPT !.stack = Append(@, [kind |-> kind, node |-> node]),
                           !.expected = Append(@, [directory |-> kind = "node",
                                                   parent |-> folder]),
                           !.contained = @ /\ top = "contents"]
            ELSE BadMarkers(m)
       ELSE BadMarkers(m)

\* a </div> closes the innermost open marker
CloseMarker(m) ==
    IF ~m.well_nested THEN m
    ELSE IF m.stack = <<>> THEN BadMarkers(m)
    ELSE [m EXCEPT !.stack = SubSeq(@, 1, Len(@) - 1),
                   !.closed = @ \/ m.stack[Len(m.stack)].kind = "root"]

InitDocuments ==
    /\ session = [NewSession(1, 1, MaxInterval) EXCEPT !.identifier = "sid"]
    /\ now = StartTime
    /\ op = "init"
    /\ reached = FALSE
    /\ call = [at |-> StartTime, before |-> session]
    /\ returns = <<>>
    /\ pc = "documents"
    /\ options = [search_policy |-> SEARCH_POLICY_STRICT, delay |-> 1,
                  request_limit |-> 1, limit_interval |-> MaxInterval]
    /\ court_list = CourtList(Courts)
    /\ i = 0
    /\ record = [name |-> "acme", registry_court |-> NoneName,
                 registry_type |-> "HRB", registry_id |-> "123"]
    /\ search_parameters = SearchParameters(record.name, record.registry_type,
                                            record.registry_id, TRUE,
                                            KEYWORDS_OPTION_EQUAL_NAME)
    /\ search_policy = options.search_policy
    /\ result = [index |-> 0, legal_entity_information |-> TRUE, documents |-> TRUE]
    /\ search_result = <<result>>
    /\ requests = <<>>
    /\ throttles = 0
    /\ emitted = <<>>
    /\ balance_dates = <<>>
    /\ shareholders = <<>>
    /\ log = {}
    /\ entity_parser = LegalEntityInformationParser
    /\ page = NoPage
    /\ entity_information = NoneInformation
    /\ capital_text = NoCapitalText
    /\ documents_parser = DocumentsTreeParser
    /\ shareholder_lists = NoneLists
    /\ fetcher = DocumentsTreeFetcher
    /\ reader = NoReader
    /\ markers = NoMarkers
    /\ court_parser = CourtListParser
    /\ form = NoForm
    /\ lookups = {}

\* parser.feed() reaches a start tag; an exception ends the feed
FeedDocumentStarttag ==
    /\ pc = "documents"
    /\ markers.fed < MaxDocTokens
    /\ ~documents_parser.raised
    /\ \E tag \in DocTags, attrs \in DocAttrs :
          /\ documents_parser' = documents_handle_starttag(documents_parser, tag, attrs)
          /\ markers' = [(IF tag = "div" THEN OpenMarker(markers, attrs) ELSE markers)
                            EXCEPT !.fed = @ + 1]
    /\ op' = "handle_starttag"
    /\ UNCHANGED <<session, now, reached, call, returns>>
    /\ UNCHANGED mainVars
    /\ UNCHANGED <<shareholder_lists, fetcher>>
    /\ UNCHANGED entityVars
    /\ UNCHANGED courtVars

\* parser.feed() reaches a text node
FeedDocumentData ==
    /\ pc = "documents"
    /\ markers.fed < MaxDocTokens
    /\ ~documents_parser.raised
    /\ \E data \in DocTexts :
          documents_parser' = documents_handle_data(documents_parser, data)
    /\ markers' = [markers EXCEPT !.fed = @ + 1]
    /\ op' = "handle_data"
    /\ UNCHANGED <<session, now, reached, call, returns>>
    /\ UNCHANGED mainVars
    /\ UNCHANGED <<shareholder_lists, fetcher>>
    /\ UNCHANGED entityVars
    /\ UNCHANGED courtVars

\* parser.feed() reaches an end tag
FeedDocumentEndtag ==
    /\ pc = "documents"
    /\ markers.fed < MaxDocTokens
    /\ ~documents_parser.raised
    /\ \E tag \in DocTags :
          /\ documents_parser' = documents_handle_endtag(documents_parser, tag)
          /\ markers' = [(IF tag = "div" THEN CloseMarker(markers) ELSE markers)
                            EXCEPT !.fed = @ + 1]
    /\ op' = "handle_endtag"
    /\ UNCHANGED <<session, now, reached, call, returns>>
    /\ UNCHANGED mainVars
    /\ UNCHANGED <<shareholder_lists, fetcher>>
    /\ UNCHANGED entityVars
    /\ UNCHANGED courtVars

NextDocuments == FeedDocumentStarttag \/ FeedDocumentData \/ FeedDocumentEndtag

SpecDocuments == InitDocuments /\ [][NextDocuments]_vars

\* ------------------------------------------ the shareholder lists on their own

MaxTreeNodes == 5

\* the labels of folders and of files
FolderLabels == {<<LIST_LABEL>>, <<"Jahresabschluss">>}
FileLabels ==
    {<<LIST_LABEL, "01.02.2003">>, <<LIST_LABEL, "Entwurf">>, <<"Anlage", "31.12.2019">>}

\* the elements of a set of numbers in increasing order
RECURSIVE Ascending(_)
Ascending(S) ==
    IF S = {} THEN <<>>
    ELSE LET least == CHOOSE x \in S : \A y \in S : x <= y
         IN <<least>> \o Ascending(S \ {least})

\* the trees the parser can return: the root is a folder, a node's parent is
\* a folder created before it, children are in the order of their creation
Tree(parents, labels) ==
    [k \in 1..Len(labels) |->
        [name |-> labels[k],
         parent |-> IF k = 1 THEN NoneElement ELSE parents[k],
         children |-> IF labels[k] \in FolderLabels
                      THEN Ascending({j \in 2..Len(labels) : parents[j] = k})
                      ELSE NoneChildren]]

InitShareholders ==
    /\ session = [NewSession(1, 1, MaxInterval) EXCEPT !.identifier = "sid"]
    /\ now = StartTime
    /\ op = "init"
    /\ reached = FALSE
    /\ call = [at |-> StartTime, before |-> session]
    /\ returns = <<>>
    /\ pc = "documents_fetched"
    /\ options = [search_policy |-> SEARCH_POLICY_STRICT, delay |-> 1,
                  request_limit |-> 1, limit_interval |-> MaxInterval]
    /\ court_list = CourtList(Courts)
    /\ i = 0
    /\ record = [name |-> "acme", registry_court |-> NoneName,
                 registry_type |-> "HRB", registry_id |-> "123"]
    /\ search_parameters = SearchParameters(record.name, record.registry_type,
                                            record.registry_id, TRUE,
                                            KEYWORDS_OPTION_EQUAL_NAME)
    /\ search_policy = options.search_policy
    /\ result = [index |-> 0, legal_entity_information |-> TRUE, documents |-> TRUE]
    /\ search_result = <<result>>
    /\ requests = <<>>
    /\ throttles = 0
    /\ emitted = <<>>
    /\ balance_dates = <<>>
    /\ shareholders = <<>>
    /\ log = {}
    /\ entity_parser = LegalEntityInformationParser
    /\ page = NoPage
    /\ entity_information = NoneInformation
    /\ capital_text = NoCapitalText
    /\ \E n \in 1..MaxTreeNodes :
          \E parents \in {f \in [1..n -> 1..n] : \A k \in 2..n : f[k] < k} :
             \E labels \in [1..n -> FolderLabels \cup FileLabels] :
                /\ labels[1] \in FolderLabels
                /\ \A k \in 2..n : labels[parents[k]] \in FolderLabels
                /\ parents[1] = 1
                /\ documents_parser =
                      [state |-> _STATE_FINISHED, depth |-> 0, element |-> 1,
                       result |-> 1, heap |-> Tree(parents, labels), raised |-> FALSE]
    /\ shareholder_lists = NoneLists
    /\ fetcher = DocumentsTreeFetcher
    /\ reader = NoReader
    /\ markers = NoMarkers
    /\ court_parser = CourtListParser
    /\ form = NoForm
    /\ lookups = {}

\* main(), line 389: the ShareholderLists object is built from the tree
BuildShareholderLists ==
    /\ pc = "documents_fetched"
    /\ shareholder_lists' = ShareholderLists(i + 1, documents_parser.heap,
                                             documents_parser.result)
    /\ pc' = "loop"
    /\ op' = "shareholder_lists"
    /\ UNCHANGED <<session, now, reached, call, returns>>
    /\ UNCHANGED <<options, court_list, i, record, search_parameters, search_policy,
                   search_result, result, requests, throttles, emitted,
                   balance_dates, shareholders, log>>
    /\ UNCHANGED entityVars
    /\ UNCHANGED <<documents_parser, markers, fetcher>>
    /\ UNCHANGED courtVars
    /\ UNCHANGED reader

NextShareholders == BuildShareholderLists

SpecShareholders == InitShareholders /\ [][NextShareholders]_vars

\* main() away from the record loop, at the given position: the session, the
\* options and the writers as after their construction
AtRest(position) ==
    /\ session = [NewSession(1, 1, MaxInterval) EXCEPT !.identifier = "sid"]
    /\ now = StartTime
    /\ op = "init"
    /\ reached = FALSE
    /\ call = [at |-> StartTime, before |-> session]
    /\ returns = <<>>
    /\ pc = position
    /\ options = [search_policy |-> SEARCH_POLICY_STRICT, delay |-> 1,
                  request_limit |-> 1, limit_interval |-> MaxInterval]
    /\ i = 0
    /\ record = NoneRecord
    /\ search_parameters = SearchParameters(None, None, None, TRUE,
                                            KEYWORDS_OPTION_EQUAL_NAME)
    /\ search_policy = options.search_policy
    /\ result = NoneEntry
    /\ search_result = NoneResult
    /\ requests = <<>>
    /\ throttles = 0
    /\ emitted = <<>>
    /\ balance_dates = <<>>
    /\ shareholders = <<>>
    /\ log = {}
    /\ entity_parser = LegalEntityInformationParser
    /\ page = NoPage
    /\ entity_information = NoneInformation
    /\ documents_parser = DocumentsTreeParser
    /\ shareholder_lists = NoneLists
    /\ fetcher = DocumentsTreeFetcher
    /\ reader = NoReader
    /\ markers = NoMarkers

\* ----------------------------------------------- the search form on its own

MaxFormTokens == 9

\* the attribute lists of the <select> and <option> tags of the search form
SelectAttrs ==
    {<<[key |-> "name", value |-> <<"registergericht">>]>>,
     <<[key |-> "name", value |-> <<"rechtsform">>]>>}
OptionValues ==
    {<<"K", "1", "1", "0", "1">>, <<"R", "2", "2", "0", "1">>,
     <<"k", "1", "1", "0", "1">>, <<"0">>}
OptionAttrs == {<<[key |-> "value", value |-> v]>> : v \in OptionValues} \cup {<<>>}
FormTexts == {<<" ", "a", "(", "b", ")">>, <<"c", "d">>}

\* the stream left the plainly nested forms
BadForm(f) ==
    [f EXCEPT !.in_select = FALSE, !.in_option = FALSE, !.counted = FALSE,
              !.named = FALSE, !.plain = FALSE, !.options = <<>>]

\* a <select> or an <option> opens
OpenFormTag(f, tag, attrs) ==
    IF ~f.plain THEN f
    ELSE IF f.in_option \/ (tag = "select" /\ f.in_select) THEN BadForm(f)
    ELSE IF tag = "select"
    THEN [f EXCEPT !.in_select = attrs[1].value = <<"registergericht">>]
    ELSE IF f.in_select /\ IsCourtIdentifier(ValueOf(attrs))
    THEN [f EXCEPT !.in_option = TRUE, !.counted = TRUE, !.named = FALSE,
                   !.options = Append(@, Court(ValueOf(attrs)))]
    ELSE [f EXCEPT !.in_option = TRUE, !.counted = FALSE]

\* a text node: the first one of an option is its display name
FormText(f, data) ==
    IF f.plain /\ f.in_option /\ f.counted /\ ~f.named
    THEN [f EXCEPT !.named = TRUE, !.options[Len(f.options)].name = strip(data)]
    ELSE f

\* a </select> or an </option>
CloseFormTag(f, tag) ==
    IF ~f.plain THEN f
    ELSE IF tag = "option"
    THEN IF f.in_option THEN [f EXCEPT !.in_option = FALSE, !.counted = FALSE]
         ELSE BadForm(f)
    ELSE IF f.in_option THEN BadForm(f)
    ELSE [f EXCEPT !.in_select = FALSE]

InitForm ==
    /\ AtRest("court_list")
    /\ court_list = CourtList(<<>>)
    /\ court_parser = CourtListParser
    /\ form = NoForm
    /\ capital_text = NoCapitalText
    /\ lookups = {}

\* parser.feed() reaches a start tag
FeedFormStarttag ==
    /\ pc = "court_list"
    /\ form.fed < MaxFormTokens
    /\ \E tag \in {"select", "option"} :
          \E attrs \in IF tag = "select" THEN SelectAttrs ELSE OptionAttrs :
             /\ court_parser' = court_handle_starttag(court_parser, tag, attrs)
             /\ form' = [OpenFormTag(form, tag, attrs) EXCEPT !.fed = @ + 1]
    /\ op' = "handle_starttag"
    /\ UNCHANGED <<session, now, reached, call, returns, lookups>>
    /\ UNCHANGED mainVars
    /\ UNCHANGED entityVars
    /\ UNCHANGED documentVars

\* parser.feed() reaches a text node
FeedFormData ==
    /\ pc = "court_list"
    /\ form.fed < MaxFormTokens
    /\ \E data \in FormTexts :
          /\ court_parser' = court_handle_data(court_parser, data)
          /\ form' = [FormText(form, data) EXCEPT !.fed = @ + 1]
    /\ op' = "handle_data"
    /\ UNCHANGED <<session, now, reached, call, returns, lookups>>
    /\ UNCHANGED mainVars
    /\ UNCHANGED entityVars
    /\ UNCHANGED documentVars

\* parser.feed() reaches an end tag
FeedFormEndtag ==
    /\ pc = "court_list"
    /\ form.fed < MaxFormTokens
    /\ \E tag \in {"select", "option"} :
          /\ court_parser' = court_handle_endtag(court_parser, tag)
          /\ form' = [CloseFormTag(form, tag) EXCEPT !.fed = @ + 1]
    /\ op' = "handle_endtag"
    /\ UNCHANGED <<session, now, reached, call, returns, lookups>>
    /\ UNCHANGED mainVars
    /\ UNCHANGED entityVars
    /\ UNCHANGED documentVars

NextForm == FeedFormStarttag \/ FeedFormData \/ FeedFormEndtag

SpecForm == InitForm /\ [][NextForm]_vars

\* ---------------------------------------------- the court list on its own

MaxCourts == 2

\* the courts a directory is made of: an abbreviation in parentheses, and two
\* names as similar to "c" as each other
CourtPool ==
    {[name |-> <<"a", "(", "b", ")">>, identifier |-> "K1101"],
     [name |-> <<"c", "d">>, identifier |-> "R2201"],
     [name |-> <<"d", "c">>, identifier |-> "D3301"]}

\* the names asked for: None, the empty name, an abbreviation, a part of two
\* names, a whole name, and a name sharing nothing with any court
LookupNames == {NoneName, <<>>, <<"b">>, <<"c">>, <<"c", "d">>, <<"x">>}

InitLookups ==
    /\ AtRest("resolve")
    /\ \E n \in 0..MaxCourts : \E courts \in [1..n -> CourtPool] :
          court_list = CourtList(courts)
    /\ court_parser = CourtListParser
    /\ form = NoForm
    /\ capital_text = NoCapitalText
    /\ lookups = {}

\* main(), line 294: court_list.get_from_name(record.registry_court)
CallGetFromName ==
    /\ pc = "resolve"
    /\ \E name \in LookupNames :
          lookups' = lookups \cup {[kind |-> "exact", name |-> name,
                                    returned |-> get_from_name(court_list, name)]}
    /\ op' = "get_from_name"
    /\ UNCHANGED <<session, now, reached, call, returns, court_parser, form>>
    /\ UNCHANGED mainVars
    /\ UNCHANGED entityVars
    /\ UNCHANGED documentVars

\* main(), line 297: court_list.get_closest_from_name(record.registry_court)
CallGetClosestFromName ==
    /\ pc = "resolve"
    /\ \E name \in LookupNames :
          lookups' = lookups \cup {[kind |-> "closest", name |-> name,
                                    returned |-> get_closest_from_name(court_list, name)]}
    /\ op' = "get_closest_from_name"
    /\ UNCHANGED <<session, now, reached, call, returns, court_parser, form>>
    /\ UNCHANGED mainVars
    /\ UNCHANGED entityVars
    /\ UNCHANGED documentVars

NextLookups == CallGetFromName \/ CallGetClosestFromName

SpecLookups == InitLookups /\ [][NextLookups]_vars

\* --------------------------------------------- the capital text on its own

MaxSpaces == 1

\* the parts a capital text is made of; amounts stay below 2^31 hundredths
GroupCounts == {0, 1, 2}
CapitalHeads == {<<"1">>, <<"1", "2">>}
CapitalGroups == {<<"2", "3", "4">>, <<"5", "6", "7">>, <<"0", "0", "0">>}
CapitalDecimals == {<<>>, <<",", "8", "9">>, <<",", "5">>, <<",", "3", "4", "5">>}
CapitalCurrencies == CurrencyTexts \cup {<<>>, <<"U", "S", "D">>}

\* the groups of three digits, each after the separator
RECURSIVE JoinGroups(_, _)
JoinGroups(groups, separator) ==
    IF groups = <<>> THEN <<>>
    ELSE separator \o Head(groups) \o JoinGroups(Tail(groups), separator)

RECURSIVE Flatten(_)
Flatten(groups) == IF groups = <<>> THEN <<>> ELSE Head(groups) \o Flatten(Tail(groups))

Spaces(n) == [k \in 1..n |-> " "]

CapitalText(head, groups, separator, decimals, spaces, currency) ==
    [text |-> Spaces(spaces[1]) \o head \o JoinGroups(groups, separator) \o decimals
              \o Spaces(spaces[2]) \o currency \o Spaces(spaces[3]),
     head |-> head, groups |-> groups, separator |-> separator,
     decimals |-> decimals, spaces |-> spaces, currency |-> currency]

\* the value cell of the keyword "Kapital" is about to be handled
InitCapital ==
    /\ AtRest("capital")
    /\ court_list = CourtList(<<>>)
    /\ court_parser = CourtListParser
    /\ form = NoForm
    /\ lookups = {}
    /\ \E head \in CapitalHeads, n \in GroupCounts, decimals \in CapitalDecimals,
          separator \in {<<>>, <<".">>}, currency \in CapitalCurrencies,
          spaces \in [1..3 -> 0..MaxSpaces] :
          \E groups \in [1..n -> CapitalGroups] :
             capital_text = CapitalText(head, groups, separator, decimals,
                                        spaces, currency)

\* __handle_value, the keyword is KEYWORD_CAPITAL: __set_capital(data)
SetCapital ==
    /\ pc = "capital"
    /\ entity_parser' = [entity_parser EXCEPT
                            !.result = set_capital_of_text(@, capital_text.text)]
    /\ pc' = "capital_set"
    /\ op' = "set_capital"
    /\ UNCHANGED <<session, now, reached, call, returns, page, entity_information,
                   capital_text>>
    /\ UNCHANGED <<options, court_list, i, record, search_parameters, search_policy,
                   search_result, result, requests, throttles, emitted,
                   balance_dates, shareholders, log>>
    /\ UNCHANGED documentVars
    /\ UNCHANGED courtVars
    /\ UNCHANGED reader

NextCapital == SetCapital

SpecCapital == InitCapital /\ [][NextCapital]_vars

\* ------------------------------------------- the document fetcher on its own

MaxFetches == 3

\* the pages of the document service, as the tokens the parser is fed
StartDiv(attrs) == [kind |-> "starttag", tag |-> "div", attrs |-> attrs]
EndDiv == [kind |-> "endtag", tag |-> "div"]
Text(data) == [kind |-> "data", data |-> data]
TreeHead(name) ==
    <<StartDiv(<<[key |-> "id", value |-> "tree-root"]>>), Text(name),
      StartDiv(<<[key |-> "class", value |-> "tree-open"]>>),
      StartDiv(<<[key |-> "class", value |-> "tree-file"]>>),
      Text(<<LIST_LABEL, "01.02.2003">>), EndDiv>>
DocPages ==
    {<<>>,
     <<Text(<<"Liste">>)>>,
     TreeHead(<<"Liste">>),
     TreeHead(<<"Liste">>) \o <<EndDiv, EndDiv>>,
     TreeHead(<<"Anlage">>) \o <<EndDiv, EndDiv>>}

\* what requests.get gives: an exception, or a status code and a text
Responses ==
    {[raised |-> TRUE, status_code |-> 0, text |-> <<>>],
     [raised |-> FALSE, status_code |-> 404, text |-> <<>>]}
    \cup {[raised |-> FALSE, status_code |-> 200, text |-> text] : text \in DocPages}

InitFetcher ==
    /\ AtRest("fetch_documents")
    /\ court_list = CourtList(Courts)
    /\ capital_text = NoCapitalText
    /\ court_parser = CourtListParser
    /\ form = NoForm
    /\ lookups = {}

\* DocumentsTreeFetcher.fetch is called on the fetcher
CallFetch ==
    /\ pc = "fetch_documents"
    /\ Len(fetcher.fetched) < MaxFetches
    /\ \E response \in Responses :
          LET f == fetch(fetcher, response)
          IN /\ fetcher' = [result |-> f.result,
                            fetched |-> Append(fetcher.fetched,
                                               [response |-> response,
                                                returned |-> f.returned])]
             /\ documents_parser' =
                   IF ~response.raised /\ response.status_code = 200
                   THEN feed(DocumentsTreeParser, response.text)
                   ELSE documents_parser
    /\ op' = "fetch"
    /\ UNCHANGED <<session, now, reached, call, returns>>
    /\ UNCHANGED mainVars
    /\ UNCHANGED entityVars
    /\ UNCHANGED <<shareholder_lists, markers>>
    /\ UNCHANGED courtVars

NextFetcher == CallFetch

SpecFetcher == InitFetcher /\ [][NextFetcher]_vars

\* --------------------------------------------------- the rows option on its own

MaxRowNumber == 3
MaxInputRows == 4

\* the texts of a bound of the rows option: nothing, or a number
BoundTexts == {<<>>} \cup {<<DigitChars[n + 1]>> : n \in 0..MaxRowNumber}

\* the values given to the rows option
RowsValues ==
    {lower \o <<",">> \o upper : lower \in BoundTexts, upper \in BoundTexts}
    \cup {<<"1">>, <<"a", ",">>}

\* main() before the command line is read
InitRows ==
    /\ session = [NewSession(1, 1, MaxInterval) EXCEPT !.identifier = "sid"]
    /\ now = StartTime
    /\ op = "init"
    /\ reached = FALSE
    /\ call = [at |-> StartTime, before |-> session]
    /\ returns = <<>>
    /\ pc = "arguments"
    /\ options = RuntimeOptions
    /\ i = -1
    /\ record = NoneRecord
    /\ search_parameters = SearchParameters(None, None, None, TRUE,
                                            KEYWORDS_OPTION_EQUAL_NAME)
    /\ search_policy = options.search_policy
    /\ result = NoneEntry
    /\ search_result = NoneResult
    /\ requests = <<>>
    /\ throttles = 0
    /\ emitted = <<>>
    /\ balance_dates = <<>>
    /\ shareholders = <<>>
    /\ log = {}
    /\ entity_parser = LegalEntityInformationParser
    /\ page = NoPage
    /\ entity_information = NoneInformation
    /\ documents_parser = DocumentsTreeParser
    /\ shareholder_lists = NoneLists
    /\ fetcher = DocumentsTreeFetcher
    /\ reader = NoReader
    /\ markers = NoMarkers
    /\ court_list = CourtList(Courts)
    /\ capital_text = NoCapitalText
    /\ court_parser = CourtListParser
    /\ form = NoForm
    /\ lookups = {}

\* lines 147-164: the rows option of the command line is set
SetRowsOption ==
    /\ pc = "arguments"
    /\ \E raw_value \in RowsValues :
          /\ options' = set_option(options, raw_value)
          /\ reader' = [reader EXCEPT !.raw_value = raw_value]
    /\ pc' = "rows"
    /\ op' = "set_option"
    /\ UNCHANGED <<session, now, reached, call, returns>>
    /\ UNCHANGED <<court_list, i, record, search_parameters, search_policy,
                   search_result, result, requests, throttles, emitted,
                   balance_dates, shareholders, log>>
    /\ UNCHANGED entityVars
    /\ UNCHANGED documentVars
    /\ UNCHANGED courtVars

\* lines 265-273: the reader gives row i; it is skipped, ends the loop,
\* is unreadable or is processed
ReadRow ==
    /\ pc = "rows"
    /\ i + 1 < MaxInputRows
    /\ i' = i + 1
    /\ \E rec \in InputRecords \cup {NoneRecord} :
          LET fate == IF i' < options.rows[1] - 1 THEN "skipped"
                      ELSE IF 0 < options.rows[2] /\ options.rows[2] <= i' THEN "break"
                      ELSE IF rec = NoneRecord THEN "none"
                      ELSE "processed"
          IN /\ record' = rec
             /\ reader' = [reader EXCEPT !.rows = Append(@, fate)]
             /\ pc' = IF fate = "break" THEN "finished" ELSE "rows"
    /\ op' = "read_row"
    /\ UNCHANGED <<session, now, reached, call, returns>>
    /\ UNCHANGED <<options, court_list, search_parameters, search_policy,
                   search_result, result, requests, throttles, emitted,
                   balance_dates, shareholders, log>>
    /\ UNCHANGED entityVars
    /\ UNCHANGED documentVars
    /\ UNCHANGED courtVars

\* line 265: the reader has no more rows
EndOfInput ==
    /\ pc = "rows"
    /\ pc' = "finished"
    /\ op' = "end_of_input"
    /\ UNCHANGED <<session, now, reached, call, returns>>
    /\ UNCHANGED <<options, court_list, i, record, search_parameters, search_policy,
                   search_result, result, requests, throttles, emitted,
                   balance_dates, shareholders, log, reader>>
    /\ UNCHANGED entityVars
    /\ UNCHANGED documentVars
    /\ UNCHANGED courtVars

NextRows == SetRowsOption \/ ReadRow \/ EndOfInput

SpecRows == InitRows /\ [][NextRows]_vars

\* ------------------------------------- one make_limited_request() step by step

\* a session as constructed, no call under way
InitThrottle ==
    /\ \E c \in SessionConfigs :
          session = NewSession(c.delay, c.request_limit, c.limit_interval)
    /\ now = StartTime
    /\ op = "init"
    /\ reached = FALSE
    /\ call = [at |-> StartTime, before |-> session]
    /\ returns = <<>>
    /\ pc = "idle"
    /\ options = [search_policy |-> SEARCH_POLICY_STRICT, delay |-> session.delay,
                  request_limit |-> session.request_limit,
                  limit_interval |-> session.limit_interval]
    /\ court_list = CourtList(<<>>)
    /\ i = -1
    /\ record = NoneRecord
    /\ search_parameters = SearchParameters(None, None, None, FALSE, None)
    /\ search_policy = SEARCH_POLICY_STRICT
    /\ search_result = NoneResult
    /\ result = NoneEntry
    /\ requests = <<>>
    /\ throttles = 0
    /\ emitted = <<>>
    /\ balance_dates = <<>>
    /\ shareholders = <<>>
    /\ log = {}
    /\ entity_parser = LegalEntityInformationParser
    /\ page = NoPage
    /\ entity_information = NoneInformation
    /\ capital_text = NoCapitalText
    /\ documents_parser = DocumentsTreeParser
    /\ shareholder_lists = NoneLists
    /\ fetcher = DocumentsTreeFetcher
    /\ reader = NoReader
    /\ markers = NoMarkers
    /\ court_parser = CourtListParser
    /\ form = NoForm
    /\ lookups = {}

\* one second passes while no call is under way
IdleTick ==
    /\ pc = "idle"
    /\ Tick

\* a caller enters session.make_limited_request()
EnterCall ==
    /\ pc = "idle"
    /\ now <= MaxTime
    /\ Len(returns) < MaxCalls
    /\ call' = [at |-> now, before |-> session]
    /\ pc' = "ceiling"
    /\ op' = "enter"
    /\ UNCHANGED <<session, now, reached, returns>>
    /\ UNCHANGED <<options, court_list, i, record, search_parameters, search_policy,
                   search_result, result, requests, throttles, emitted,
                   balance_dates, shareholders, log, reader>>
    /\ UNCHANGED entityVars
    /\ UNCHANGED documentVars
    /\ UNCHANGED courtVars

\* lines 89-105: the half of the ceiling is run, its sleep included
CeilingHalf ==
    /\ pc = "ceiling"
    /\ \E r \in LimitCeiling(session, now) :
          /\ session' = r.session
          /\ now' = r.now
    /\ pc' = "delay"
    /\ op' = "ceiling"
    /\ UNCHANGED <<reached, call, returns>>
    /\ UNCHANGED <<options, court_list, i, record, search_parameters, search_policy,
                   search_result, result, requests, throttles, emitted,
                   balance_dates, shareholders, log, reader>>
    /\ UNCHANGED entityVars
    /\ UNCHANGED documentVars
    /\ UNCHANGED courtVars

\* lines 107-114: the half of the delay is run, its sleep included, and the
\* call returns
DelayHalf ==
    /\ pc = "delay"
    /\ \E r \in LimitDelay(session, now) :
          /\ session' = r.session
          /\ now' = r.now
          /\ returns' = Append(returns, r.now)
    /\ pc' = "idle"
    /\ op' = "make_limited_request"
    /\ UNCHANGED <<reached, call>>
    /\ UNCHANGED <<options, court_list, i, record, search_parameters, search_policy,
                   search_result, result, requests, throttles, emitted,
                   balance_dates, shareholders, log, reader>>
    /\ UNCHANGED entityVars
    /\ UNCHANGED documentVars
    /\ UNCHANGED courtVars

NextThrottle == IdleTick \/ EnterCall \/ CeilingHalf \/ DelayHalf

\* the caller's thread runs on, and a sleep of finitely many seconds ends
SpecThrottle ==
    /\ InitThrottle
    /\ [][NextThrottle]_vars
    /\ WF_vars(CeilingHalf)
    /\ WF_vars(DelayHalf)

\* =========================================================== properties
\* the search requests issued for the row being processed, in order
Searches == SelectSeq(requests, LAMBDA r : r.kind = "search")

\* an entity record was written for the row being processed
EmittedForRow == \E n \in 1..Len(emitted) : emitted[n].row = i + 1

\* main() is past the three search stages of the row
PastSearchStages == pc \in {"check", "detail", "documents", "loop", "finished"}

\* C1: within one record the stages of the search requests only move forward
\* along STRICT -> NAME -> KEYWORDS, and no stage is searched twice.
C1_StagesOnlyForward ==
    \A k, l \in 1..Len(Searches) : k < l => Searches[k].stage < Searches[l].stage

C1_Witness ==
    /\ Len(Searches) = 3
    /\ Searches[1].stage = SEARCH_POLICY_STRICT
    /\ Searches[3].stage = SEARCH_POLICY_KEYWORDS

\* C2: a search that returns exactly one result is the last search request
\* of its record, whatever its stage.
C2_UniqueResultStopsEscalation ==
    \A k \in 1..Len(Searches) : Searches[k].outcome = 1 => k = Len(Searches)

C2_Witness ==
    /\ pc = "detail"
    /\ Len(Searches) = 2
    /\ Searches[2].stage = SEARCH_POLICY_NAME
    /\ Searches[2].outcome = 1

\* C3: a search that returns more than one result is the last request of its
\* record: no looser search, no detail or document fetch, nothing emitted.
C3_AmbiguousResultSkipsRecord ==
    \A k \in 1..Len(requests) :
        (requests[k].kind = "search" /\ requests[k].outcome > 1) =>
            /\ k = Len(requests)
            /\ pc \notin {"detail", "documents"}
            /\ ~EmittedForRow

C3_Witness ==
    /\ pc = "loop"
    /\ "too_many" \in log
    /\ Len(requests) = 2
    /\ requests[2].stage = SEARCH_POLICY_NAME
    /\ requests[2].outcome > 1

\* C4: a search at the next stage follows exactly a search with zero results
\* at STRICT or NAME; zero results at KEYWORDS end the record with no further
\* request and nothing emitted.
C4_EscalatesExactlyOnZeroResults ==
    \A k \in 1..Len(Searches) :
        /\ k < Len(Searches) =>
              /\ Searches[k].outcome = 0
              /\ Searches[k + 1].stage = Searches[k].stage + 1
        /\ (PastSearchStages /\ Searches[k].outcome = 0
               /\ Searches[k].stage < SEARCH_POLICY_KEYWORDS) => k < Len(Searches)
        /\ (Searches[k].outcome = 0 /\ Searches[k].stage = SEARCH_POLICY_KEYWORDS) =>
              /\ requests[Len(requests)] = Searches[k]
              /\ pc \in {"loop", "finished"}
              /\ ~EmittedForRow

C4_Witness ==
    /\ pc = "loop"
    /\ Len(Searches) = 3
    /\ Searches[3].outcome = 0
    /\ "no_result" \in log

\* C5: every search request, detail fetch and document fetch is preceded by
\* exactly one make_limited_request() call made since the previous request.
C5_OneThrottlePerRequest ==
    \A k \in 1..Len(requests) : requests[k].throttles = 1

\* C6: a record whose court name resolves to no court is logged, its search
\* is still issued without the court parameter, and the run is not aborted.
C6_UnresolvedCourtContinues ==
    "no_court" \in log =>
        /\ pc # "crashed"
        /\ \A k \in 1..Len(Searches) : Searches[k].params.registry_court = None

CeilingEnabled(s) == s.request_limit > 0 /\ s.limit_interval > 0

\* the last step was a make_limited_request() call that found the ceiling
\* reached inside the running window
CeilingHit ==
    /\ op = "make_limited_request"
    /\ CeilingEnabled(call.before)
    /\ call.before.limited_requests >= call.before.request_limit
    /\ call.at - call.before.limit_start < call.before.limit_interval

\* C7 (as claimed): a throttle() call that finds N calls counted and less than
\* T elapsed since the window start returns no earlier than window start + T,
\* with the counter at 1 and the window start equal to the time of return.
C7_WindowStartIsReturnTime ==
    CeilingHit =>
        /\ now >= call.before.limit_start + call.before.limit_interval
        /\ session.limited_requests = 1
        /\ session.limit_start = now

\* C7 (amended): such a call returns no earlier than window start + T, with
\* the counter at 1 and the new window start being the moment the ceiling
\* sleep ended: at least the old window start + T, at most the time of return.
C7_CeilingBlocksUntilWindowEnd ==
    CeilingHit =>
        /\ now >= call.before.limit_start + call.before.limit_interval
        /\ session.limited_requests = 1
        /\ session.limit_start >= call.before.limit_start + call.before.limit_interval
        /\ session.limit_start <= now

C7_Witness == CeilingHit /\ session.limit_start < now

\* number of make_limited_request() calls that returned in [t, t + span)
ReturnsWithin(t, span) ==
    Cardinality({k \in 1..Len(returns) : returns[k] >= t /\ returns[k] < t + span})

\* C8: with the ceiling enabled, no more than request_limit calls return
\* within any time span of length limit_interval.
C8_SlidingCeiling ==
    CeilingEnabled(session) =>
        \A k \in 1..Len(returns) :
            ReturnsWithin(returns[k], session.limit_interval) <= session.request_limit

\* C9: with delay > 0, consecutive throttle() calls return at least delay
\* seconds apart, whether or not the ceiling made a call sleep.
C9_MinimumDelay ==
    session.delay > 0 =>
        \A k \in 1..(Len(returns) - 1) : returns[k + 1] - returns[k] >= session.delay

C9_Witness == CeilingHit /\ session.delay > 0 /\ Len(returns) >= 2

\* C10: is_limit_reached() returns true exactly when the ceiling is enabled,
\* less than limit_interval has elapsed since the window start and the counter
\* is at least request_limit; it takes no time and leaves the window start and
\* the delay timestamp alone.
C10_IsLimitReachedExact ==
    op = "is_limit_reached" =>
        /\ reached = (/\ CeilingEnabled(call.before)
                      /\ call.at - call.before.limit_start < call.before.limit_interval
                      /\ call.before.limited_requests >= call.before.request_limit)
        /\ now = call.at
        /\ session.limit_start = call.before.limit_start
        /\ session.delay_start = call.before.delay_start

C10_Witness == op = "is_limit_reached" /\ reached /\ Len(returns) >= 1

\* C11: a limit configured as zero or negative is switched off.  With
\* delay <= 0 make_limited_request() never sleeps for the delay (it returns at
\* the call time, or at the end of the ceiling sleep) and leaves the delay
\* timestamp alone.  With request_limit <= 0 or limit_interval <= 0 it never
\* sleeps for the ceiling (it returns at the call time or after the delay
\* sleep only) and leaves the window counter and the window start alone, and
\* is_limit_reached() returns false.
C11_NonPositiveLimitsDisabled ==
    /\ (op = "make_limited_request" /\ call.before.delay <= 0) =>
          /\ session.delay_start = call.before.delay_start
          /\ now = IF CeilingHit THEN session.limit_start ELSE call.at
    /\ (op = "make_limited_request" /\ ~CeilingEnabled(call.before)) =>
          /\ session.limited_requests = call.before.limited_requests
          /\ session.limit_start = call.before.limit_start
          /\ LET remaining == call.before.delay - call.at + call.before.delay_start
             IN IF call.before.delay > 0 /\ remaining > 0
                THEN now \in Sleep(call.at, remaining)
                ELSE now = call.at
    /\ (op = "is_limit_reached" /\ ~CeilingEnabled(call.before)) =>
          /\ ~reached
          /\ session = call.before

C11_Witness ==
    /\ op = "make_limited_request"
    /\ call.before.delay <= 0
    /\ ~CeilingEnabled(call.before)
    /\ Len(returns) >= 2

\* C12: no search request is issued and no record is processed unless the
\* session initialisation obtained a token and the court directory fetched at
\* start-up is non-empty; otherwise the run aborts before the first record.
C12_NoRecordWithoutTokenAndCourts ==
    /\ (i >= 0 \/ requests # <<>> \/ pc \notin {"start", "courts", "exit"}) =>
          /\ session.identifier \notin {None, ""}
          /\ Len(court_list.name_map) > 0
    /\ pc = "exit" =>
          /\ i = -1
          /\ requests = <<>>
          /\ emitted = <<>>
          /\ session.identifier \in {None, ""} \/ Len(court_list.name_map) = 0

C12_Witness ==
    /\ pc = "exit"
    /\ session.identifier = "sid"
    /\ Len(court_list.name_map) = 0
    /\ op = "fetch_court_list"

\* C13: every input record of the row range is emitted or skipped, in input
\* order, and no per-record failure (no result, ambiguous result, failed
\* search, failed detail or document fetch, unresolved court name) stops the
\* run: main() never ends inside a record, and the rows written so far are
\* rows already read, in increasing order.
C13_EveryRecordEmittedOrSkipped ==
    /\ pc # "crashed"
    /\ \A k \in 1..Len(emitted) : emitted[k].row <= i + 1
    /\ \A k \in 1..(Len(emitted) - 1) : emitted[k].row < emitted[k + 1].row

\* C14: whenever an entity record is emitted, the stage written alongside it
\* is the stage of the search that returned the unique result: the last
\* search of the row, which delivered exactly one entry.
C14_EmittedStageIsResultStage ==
    \A k \in 1..Len(emitted) :
        emitted[k].row = i + 1 =>
            /\ Len(Searches) >= 1
            /\ Searches[Len(Searches)].outcome = 1
            /\ emitted[k].policy = Searches[Len(Searches)].stage
            /\ \A l \in 1..(Len(Searches) - 1) : Searches[l].outcome = 0

C14_Witness ==
    /\ EmittedForRow
    /\ Len(Searches) = 3
    /\ emitted[Len(emitted)].policy = SEARCH_POLICY_KEYWORDS

\* C15 (as claimed): the first search request of every record is at STRICT,
\* whatever the configuration.
C15_FirstSearchIsStrict ==
    Len(Searches) >= 1 => Searches[1].stage = SEARCH_POLICY_STRICT

\* C15 (amended): the first search request of every record is at the stage
\* the search-policy option selects, which is STRICT unless configured.
C15_FirstSearchIsConfiguredStage ==
    Len(Searches) >= 1 => Searches[1].stage = options.search_policy

C15_Witness ==
    /\ Len(Searches) = 2
    /\ Searches[1].stage = SEARCH_POLICY_NAME
    /\ options.search_policy = SEARCH_POLICY_NAME

\* the court identifiers of the fetched court directory
CourtIdentifiers == {court_list.name_map[n].value.identifier :
                        n \in 1..Len(court_list.name_map)}

\* the parameters search request r carries are those of its stage, the
\* KEYWORDS stage using the given keyword mode
CarriesStageParameters(r, keywords_mode) ==
    /\ r.params.keywords = record.name
    /\ r.params.search_option_deleted
    /\ r.stage = SEARCH_POLICY_STRICT =>
          /\ r.params.registry_type = record.registry_type
          /\ r.params.registry_id = record.registry_id
          /\ IF record.registry_court = NoneName
             THEN r.params.registry_court = None
             ELSE r.params.registry_court \in CourtIdentifiers
          /\ r.params.keywords_option = KEYWORDS_OPTION_EQUAL_NAME
    /\ r.stage = SEARCH_POLICY_NAME =>
          /\ r.params.registry_type = None
          /\ r.params.registry_id = None
          /\ r.params.registry_court = None
          /\ r.params.keywords_option = KEYWORDS_OPTION_EQUAL_NAME
    /\ r.stage = SEARCH_POLICY_KEYWORDS =>
          /\ r.params.registry_type = None
          /\ r.params.registry_id = None
          /\ r.params.registry_court = None
          /\ r.params.keywords_option = keywords_mode

\* C16 (as claimed): each stage's request carries that stage's parameters:
\* STRICT the name, type, id and court with the exact-name mode and
\* include-deleted; NAME the type, id and court cleared with the exact-name
\* mode; KEYWORDS the same cleared fields with the AT_LEAST_ONE mode.
C16_KeywordsStageMatchesAnyKeyword ==
    \A k \in 1..Len(Searches) :
        CarriesStageParameters(Searches[k], KEYWORDS_OPTION_AT_LEAST_ONE)

\* C16 (amended): as above, but the KEYWORDS stage uses the ALL mode.
C16_StageParameters ==
    \A k \in 1..Len(Searches) :
        CarriesStageParameters(Searches[k], KEYWORDS_OPTION_ALL)

C16_Witness ==
    /\ Len(Searches) = 3
    /\ Searches[1].params.registry_court \in CourtIdentifiers
    /\ Searches[3].params.keywords_option = KEYWORDS_OPTION_ALL

\* the requests of the given kind issued for the row being processed
RequestsOfKind(kind) == SelectSeq(requests, LAMBDA r : r.kind = kind)

\* main() is done with the row being processed
RowDone == i >= 0 /\ pc \in {"loop", "finished"}

\* the row's last search returned exactly one entry, flagged as having both
\* legal entity information and documents
UniqueResultWithBothFlags ==
    /\ Len(Searches) >= 1
    /\ Searches[Len(Searches)].outcome = 1
    /\ search_result # NoneResult
    /\ search_result[1].legal_entity_information
    /\ search_result[1].documents

\* C17 (as claimed): for a record whose search yields exactly one result
\* flagged with both entity information and documents, the detail fetch and
\* the document tree fetch are each issued exactly once.
C17_DetailAndDocumentsOnceEach ==
    (RowDone /\ UniqueResultWithBothFlags) =>
        /\ Len(RequestsOfKind("detail")) = 1
        /\ Len(RequestsOfKind("documents")) = 1

\* C17 (amended): for such a record the detail fetch is issued exactly once;
\* the document tree fetch is issued exactly once, after it, if the detail
\* fetch returned a result, and not at all if it returned none.
C17_DetailOnceDocumentsOnceAfterDetail ==
    /\ Len(RequestsOfKind("detail")) <= 1
    /\ Len(RequestsOfKind("documents")) <= 1
    /\ (RowDone /\ UniqueResultWithBothFlags) =>
          /\ Len(RequestsOfKind("detail")) = 1
          /\ Len(RequestsOfKind("documents")) =
                IF RequestsOfKind("detail")[1].outcome = 1 THEN 1 ELSE 0
          /\ requests[Len(requests)].kind =
                IF RequestsOfKind("detail")[1].outcome = 1 THEN "documents" ELSE "detail"

C17_Witness ==
    /\ RowDone
    /\ UniqueResultWithBothFlags
    /\ Len(RequestsOfKind("documents")) = 1
    /\ Len(Searches) = 2

\* the last request issued for the row is of the given kind and failed
LastRequestFailed(kind) ==
    /\ Len(requests) >= 1
    /\ requests[Len(requests)].kind = kind
    /\ requests[Len(requests)].outcome = -1

\* the given file was written for the row being processed
WrittenForRow(rows) == \E n \in 1..Len(rows) : rows[n] = i + 1

\* C18: if the document tree fetch fails after the entity detail was
\* obtained, the entity record and the balance dates of the record are still
\* emitted, no shareholder filing dates are emitted for it, and main() goes on
\* with the next record.
C18_DocumentFailureKeepsEntity ==
    LastRequestFailed("documents") =>
        /\ RequestsOfKind("detail")[1].outcome = 1
        /\ EmittedForRow
        /\ WrittenForRow(balance_dates)
        /\ ~WrittenForRow(shareholders)
        /\ pc \in {"loop", "finished"}

C18_Witness ==
    /\ LastRequestFailed("documents")
    /\ "no_shareholders" \in log
    /\ pc = "loop"
    /\ i = 0

\* C19: if the entity detail fetch for a unique hit returns no result, the
\* record is abandoned: no entity record is emitted, no document tree fetch is
\* made and the detail fetch is not retried.
C19_FailedDetailAbandonsRecord ==
    (Len(RequestsOfKind("detail")) >= 1 /\ RequestsOfKind("detail")[1].outcome = -1) =>
        /\ LastRequestFailed("detail")
        /\ Len(RequestsOfKind("detail")) = 1
        /\ Len(RequestsOfKind("documents")) = 0
        /\ ~EmittedForRow
        /\ ~WrittenForRow(balance_dates)
        /\ ~WrittenForRow(shareholders)
        /\ pc \in {"loop", "finished"}

C19_Witness ==
    /\ LastRequestFailed("detail")
    /\ UniqueResultWithBothFlags
    /\ "no_detail" \in log
    /\ pc = "loop"

\* C20: when the detail page does not contain the required section heading
\* (an h3 with the heading text), the parser yields no result: fetch() returns
\* None, and no entity record is emitted for the record.
C20_NoHeadingNoResult ==
    /\ (pc = "fetched" /\ op = "fetch" /\ ~page.heading) =>
          entity_information = NoneInformation
    /\ (op = "write_entity" /\ ~page.heading) =>
          /\ emitted = <<>>
          /\ balance_dates = <<>>

\* C21: a search request that fails (no result list at all, as opposed to an
\* empty list) never triggers escalation: it is the last request of the
\* record, so no search at a looser stage and no detail or document fetch
\* follows, and nothing is emitted for the record.
C21_FailedSearchSkipsRecord ==
    \A k \in 1..Len(requests) :
        (requests[k].kind = "search" /\ requests[k].outcome = -1) =>
            /\ k = Len(requests)
            /\ ~EmittedForRow
            /\ ~WrittenForRow(balance_dates)
            /\ ~WrittenForRow(shareholders)
            /\ search_policy = requests[k].stage
            /\ pc \notin {"detail", "documents"}

C21_Witness ==
    /\ Len(Searches) = 2
    /\ Searches[2].outcome = -1
    /\ Searches[2].stage = SEARCH_POLICY_NAME
    /\ "search_failed" \in log
    /\ pc = "loop"

\* C22: the parser's result is null until the close of a folder brings the
\* depth back to zero, and then it is the root node, the one the root marker
\* opened; the depth is never negative.
C22_ResultIsRootOnceDepthIsZero ==
    /\ [](/\ documents_parser.depth >= 0
          /\ documents_parser.result # NoneElement
                => /\ documents_parser.depth = 0
                   /\ documents_parser.result = 1
                   /\ documents_parser.heap[1].parent = NoneElement
                   /\ documents_parser.heap[1].children # NoneChildren
                   /\ documents_parser.state = _STATE_FINISHED)
    /\ [][documents_parser'.result # documents_parser.result
            => /\ op' = "handle_endtag"
               /\ documents_parser.result = NoneElement
               /\ documents_parser.state = _STATE_DIRECTORY_ROOT
               /\ documents_parser.depth = 1
               /\ documents_parser'.depth = 0]_vars

\* a tree with a folder inside the root was closed
C22_Witness ==
    /\ documents_parser.result = 1
    /\ \E k \in 1..Len(documents_parser.heap) :
          /\ documents_parser.heap[k].parent = 1
          /\ documents_parser.heap[k].children # NoneChildren

\* the tree has one node per folder or file marker, in the order of the
\* markers; each node's parent is the marker's nearest enclosing folder and a
\* folder's children are its markers in document order
TreeMatchesMarkers ==
    LET heap == documents_parser.heap
        expected == markers.expected
    IN /\ Len(heap) = Len(expected)
       /\ \A k \in 1..Len(heap) :
             /\ heap[k].parent = expected[k].parent
             /\ (heap[k].children # NoneChildren) = expected[k].directory
             /\ expected[k].directory
                   => /\ {heap[k].children[a] : a \in 1..Len(heap[k].children)}
                            = {j \in 1..Len(expected) : expected[j].parent = k}
                      /\ \A a, b \in 1..Len(heap[k].children) :
                            a < b => heap[k].children[a] < heap[k].children[b]

\* C23 as stated: for a well-nested stream of root, folder and file markers
\* the tree has exactly one node per folder and file marker, each node's parent
\* is the nearest enclosing folder and the children are in document order.
C23_WellNestedMarkersGiveTheTree ==
    markers.well_nested => TreeMatchesMarkers

\* C23, amended: the same, for streams in which every folder and file marker
\* lies directly inside a tree-open or tree-closed container that lies
\* directly inside its folder, and no other <div> occurs.
C23_ContainedMarkersGiveTheTree ==
    markers.contained
        => /\ TreeMatchesMarkers
           /\ ~documents_parser.raised
           /\ markers.closed => documents_parser.result = 1

\* a root holding a folder with a file, followed by a file of the root
C23_Witness ==
    /\ markers.contained
    /\ Len(documents_parser.heap) = 4
    /\ documents_parser.heap[1].children = <<2, 4>>
    /\ documents_parser.heap[2].children = <<3>>
    /\ documents_parser.heap[3].children = NoneChildren
    /\ documents_parser.heap[4].children = NoneChildren

\* the leaves below the given nodes, depth first in document order
RECURSIVE LeavesBelow(_, _)
LeavesBelow(heap, nodes) ==
    IF nodes = <<>> THEN <<>>
    ELSE (IF heap[Head(nodes)].children = NoneChildren
          THEN <<Head(nodes)>>
          ELSE LeavesBelow(heap, heap[Head(nodes)].children))
         \o LeavesBelow(heap, Tail(nodes))

\* the node lies in the subtree of a folder whose label is the label of the
\* shareholder lists
RECURSIVE BelowListFolder(_, _)
BelowListFolder(heap, k) ==
    LET parent == heap[k].parent
    IN /\ parent # NoneElement
       /\ heap[parent].name = <<LIST_LABEL>> \/ BelowListFolder(heap, parent)

\* the node lies in the subtree of a folder, other than the root, whose label
\* is the label of the shareholder lists
RECURSIVE InsideListFolder(_, _)
InsideListFolder(heap, k) ==
    LET parent == heap[k].parent
    IN /\ parent # NoneElement
       /\ \/ heap[parent].name = <<LIST_LABEL>> /\ heap[parent].parent # NoneElement
          \/ InsideListFolder(heap, parent)

\* the dates of the given leaves, null where the label holds no date
DatesOf(heap, leaves) ==
    [k \in 1..Len(leaves) |-> SearchDate(heap[leaves[k]].name)]

\* C24 as stated: dates holds, depth first in document order, one entry for
\* every leaf in the subtree of a folder labeled "Liste der Gesellschafter",
\* the date of the leaf's label or null, and none for a leaf outside.
C24_OneDatePerLeafOfTheListFolder ==
    shareholder_lists # NoneLists
        => LET heap == documents_parser.heap
               Inside(k) == BelowListFolder(heap, k)
           IN shareholder_lists.dates
                 = DatesOf(heap, SelectSeq(LeavesBelow(heap, <<1>>), Inside))

\* C24, amended: one entry for every leaf whose own label starts with
\* "Liste der Gesellschafter" and that lies in the subtree of a folder, other
\* than the root, labeled exactly so; no entry for any other leaf.
C24_OneDatePerListLeafOfTheListFolder ==
    shareholder_lists # NoneLists
        => LET heap == documents_parser.heap
               Listed(k) == /\ InsideListFolder(heap, k)
                            /\ Head(heap[k].name) = LIST_LABEL
           IN shareholder_lists.dates
                 = DatesOf(heap, SelectSeq(LeavesBelow(heap, <<1>>), Listed))

\* a list folder holding a subfolder with a dated list and then an undated
\* list of its own: the order is depth first, not the order of creation
C24_Witness ==
    /\ shareholder_lists # NoneLists
    /\ shareholder_lists.dates = <<"01.02.2003", None>>
    /\ Len(documents_parser.heap) = 5
    /\ documents_parser.heap[2].name = <<LIST_LABEL>>
    /\ documents_parser.heap[2].children = <<3, 4>>
    /\ documents_parser.heap[3].children = <<5>>

\* C25: the parser yields exactly one court for each <option> inside the
\* court <select> whose value is one uppercase letter plus four digits, with
\* that option's own code and display name, and none for any other option;
\* the identifier index has one entry per distinct code.
C25_OneCourtPerMatchingOption ==
    form.plain /\ ~form.in_option
        => /\ court_parser.result = form.options
           /\ Len(CourtList(court_parser.result).identifier_map)
                 = Cardinality({form.options[k].identifier : k \in 1..Len(form.options)})

\* C26: get_closest_from_name returns None only when the directory is empty
\* or the name is None or empty: for every non-empty name and non-empty
\* directory it returns a court.
C26_ClosestOfNonEmptyIsACourt ==
    \A l \in lookups :
        /\ l.kind = "closest"
        /\ l.name # NoneName /\ l.name # <<>>
        /\ court_list.name_map # <<>>
        => l.returned # NoneCourt

\* the court with the highest ratio, the first of those sharing it
HighestRatio(d, name) ==
    d[CHOOSE k \in 1..Len(d) :
         \A o \in 1..Len(d) :
            /\ RatioGreaterOrEqual(Ratio(name, d[k].key), Ratio(name, d[o].key))
            /\ RatioGreaterOrEqual(Ratio(name, d[o].key), Ratio(name, d[k].key))
                  => k <= o].value

\* C27: get_closest_from_name returns the first court, in directory order,
\* whose name contains the input in parentheses when there is one; otherwise
\* the court with the highest similarity ratio, and among the courts sharing
\* the highest ratio the one met first.
C27_ParenthesesFirstThenHighestRatio ==
    \A l \in lookups :
        l.kind = "closest" /\ l.name # NoneName /\ court_list.name_map # <<>>
        => LET d == court_list.name_map
               hits == {k \in 1..Len(d) : Contains(d[k].key, <<"(">> \o l.name \o <<")">>)}
           IN l.returned = IF hits # {}
                           THEN d[CHOOSE k \in hits : \A o \in hits : k <= o].value
                           ELSE HighestRatio(d, l.name)

WellFormedCapital ==
    /\ Len(capital_text.decimals) <= 3
    /\ capital_text.currency \in CurrencyTexts \cup {<<>>}

\* the amount the parts denote, in hundredths
AmountOfParts ==
    LET digits == capital_text.head \o Flatten(capital_text.groups)
        decimals == Tail(capital_text.decimals)
    IN DecimalValue(digits) * 100
       + (IF capital_text.decimals = <<>> THEN 0
          ELSE IF Len(decimals) = 1 THEN DecimalValue(decimals) * 10
          ELSE DecimalValue(decimals))

\* C30: a capital text is parsed by removing the periods that separate the
\* thousands and reading the comma as the decimal point: "1.234.567,89 EUR"
\* gives 1234567.89 and "EUR"; a text with no currency gives its amount and a
\* null currency.
C30_CapitalAmountAndCurrency ==
    pc = "capital_set"
        => LET r == entity_parser.result
           IN /\ capital_text.text = <<"1", ".", "2", "3", "4", ".", "5", "6", "7",
                                       ",", "8", "9", " ", "E", "U", "R">>
                    => r.capital = 123456789 /\ r.capital_currency = "EUR"
              /\ WellFormedCapital
                    => /\ r.capital = AmountOfParts
                       /\ r.capital_currency =
                             IF capital_text.currency = <<>> THEN None
                             ELSE CurrencyName(capital_text.currency)

\* the text of the example was parsed
C30_Witness ==
    /\ pc = "capital_set"
    /\ capital_text.text = <<"1", ".", "2", "3", "4", ".", "5", "6", "7",
                             ",", "8", "9", " ", "E", "U", "R">>
    /\ entity_parser.result.capital = 123456789

\* C31: with the ceiling enabled, after any sequence of is_limit_reached()
\* and make_limited_request() calls at any times the window counter never
\* exceeds request_limit.
C31_CounterWithinLimit ==
    CeilingEnabled(session) => session.limited_requests <= session.request_limit


\* the number of ancestors of an element of the heap
RECURSIVE Ancestors(_, _)
Ancestors(heap, element) ==
    IF heap[element].parent = NoneElement THEN 0
    ELSE 1 + Ancestors(heap, heap[element].parent)

IsFolder(heap, element) ==
    element # NoneElement /\ heap[element].children # NoneChildren

\* C32: in every reachable state of the document tree parser, in the folder
\* states the current node is a folder and the depth is its number of
\* ancestors plus one; in the file state the current node is a leaf whose
\* parent is a folder; so create_child never raises on a leaf and the parent
\* link followed on a close is never None.
C32_CurrentNodeFitsTheState ==
    LET p == documents_parser
    IN /\ ~p.raised
       /\ p.state \in {_STATE_DIRECTORY_ROOT, _STATE_DIRECTORY_CONTENTS}
             => /\ IsFolder(p.heap, p.element)
                /\ p.depth = Ancestors(p.heap, p.element) + 1
       /\ p.state = _STATE_FILE_ROOT
             => /\ p.element # NoneElement
                /\ p.heap[p.element].children = NoneChildren
                /\ IsFolder(p.heap, p.heap[p.element].parent)

\* a file was opened inside a folder below the root
C32_Witness ==
    /\ documents_parser.state = _STATE_FILE_ROOT
    /\ documents_parser.depth = 2
    /\ Ancestors(documents_parser.heap, documents_parser.element) = 2


\* the parser after a <div> without attributes and its </div>
AfterUnmarkedDiv(p) ==
    documents_handle_endtag(documents_handle_starttag(p, "div", <<>>), "div")

\* C33: inside the tree a <div> without a tree marker, together with its
\* closing tag, changes neither the depth, nor the current node, nor the
\* tree built so far or returned.
C33_UnmarkedDivChangesNothing ==
    LET p == documents_parser
        q == AfterUnmarkedDiv(p)
    IN p.state \in {_STATE_DIRECTORY_ROOT, _STATE_DIRECTORY_CONTENTS, _STATE_FILE_ROOT}
          => /\ q.depth = p.depth
             /\ q.element = p.element
             /\ q.heap = p.heap
             /\ q.result = p.result


\* C38: once the document tree parser has reached _STATE_FINISHED no later
\* token (a second root marker, folder or file markers, text, closing tags)
\* changes its state, its depth, its result or the tree the result holds.
C38_FinishedIsFinal ==
    [][documents_parser.state = _STATE_FINISHED
          => /\ documents_parser'.state = _STATE_FINISHED
             /\ documents_parser'.depth = documents_parser.depth
             /\ documents_parser'.result = documents_parser.result
             /\ documents_parser'.heap = documents_parser.heap]_vars

\* a start tag was fed to the finished parser: no start tag finishes it
C38_Witness ==
    /\ documents_parser.state = _STATE_FINISHED
    /\ op = "handle_starttag"
    /\ Len(documents_parser.heap) > 1


\* the tree of a response: the one its page holds when the request succeeds
\* and the page holds a complete tree
TreeOf(response) ==
    IF ~response.raised /\ response.status_code = 200
    THEN ResultOf(feed(DocumentsTreeParser, response.text))
    ELSE NoneTree

\* C37: every fetch() returns the tree parsed from the response of that very
\* call, or None when the request fails or the response holds no complete
\* tree; on a fetcher used for several fetches it never returns the tree of
\* an earlier call.
C37_FetchReturnsTheTreeOfItsCall ==
    \A k \in 1..Len(fetcher.fetched) :
        fetcher.fetched[k].returned = TreeOf(fetcher.fetched[k].response)


\* C34: balance is None unless the row of KEYWORD_BALANCE held a <select>,
\* and then lists the matching <option> texts of that row; so outside the
\* value cell of that row no token, a <select> of another row included,
\* changes balance.
C34_BalanceChangesInItsRowOnly ==
    [][~(entity_parser.state = STATE_AWAIT_VALUE
         /\ entity_parser.keyword = KEYWORD_BALANCE)
          => entity_parser'.result.balance = entity_parser.result.balance]_vars


\* the row's last search returned exactly one entry, and it lacks the flag
\* of the legal entity information
UniqueResultWithoutEntityFlag ==
    /\ Len(Searches) >= 1
    /\ Searches[Len(Searches)].outcome = 1
    /\ search_result # NoneResult
    /\ ~search_result[1].legal_entity_information

\* C35: a document tree fetch is issued for a record only after an entity
\* record was emitted for that record; a unique hit lacking the flag of the
\* legal entity information is skipped without any fetch, even when its
\* documents flag is set.
C35_DocumentsOnlyAfterEntityRecord ==
    /\ Len(RequestsOfKind("documents")) >= 1 =>
          /\ EmittedForRow
          /\ \E n \in 1..Len(requests) - 1 :
                requests[n].kind = "detail" /\ requests[n].outcome = 1
    /\ UniqueResultWithoutEntityFlag =>
          /\ Len(RequestsOfKind("detail")) = 0
          /\ Len(RequestsOfKind("documents")) = 0
          /\ ~EmittedForRow
          /\ ~WrittenForRow(shareholders)

\* a unique hit with the documents flag but without the entity flag was
\* given up
C35_Witness ==
    /\ RowDone
    /\ UniqueResultWithoutEntityFlag
    /\ search_result[1].documents
    /\ "no_indicator" \in log


\* C36: each input record starts from the configured starting stage with
\* freshly built search parameters: once a record is prepared the stage is
\* the one of the options and the parameters are those of the record itself,
\* whatever the record before was escalated to, and the record's first
\* search is at that stage.
C36_RecordStartsAfresh ==
    /\ op = "prepare" =>
          /\ search_policy = options.search_policy
          /\ search_parameters.keywords = record.name
          /\ search_parameters.registry_type = record.registry_type
          /\ search_parameters.registry_id = record.registry_id
          /\ search_parameters.keywords_option = KEYWORDS_OPTION_EQUAL_NAME
          /\ search_parameters.search_option_deleted
          /\ record.registry_court = NoneName =>
                search_parameters.registry_court = None
    /\ Len(Searches) >= 1 =>
          /\ Searches[1].stage = options.search_policy
          /\ Searches[1].params.keywords = record.name
          /\ Searches[1].params.keywords_option = KEYWORDS_OPTION_EQUAL_NAME
                \/ Searches[1].stage = SEARCH_POLICY_KEYWORDS

\* the second record was prepared after the first one was escalated from
\* the strict stage and emitted at a looser one
C36_Witness ==
    /\ i = 1
    /\ op = "prepare"
    /\ options.search_policy = SEARCH_POLICY_STRICT
    /\ Len(emitted) = 1
    /\ emitted[1].row = 1
    /\ emitted[1].policy # SEARCH_POLICY_STRICT
    /\ record.registry_type # None


\* the rows option gave a lower bound only, "L," with L > 0
LowerBoundOnly ==
    /\ Len(reader.raw_value) >= 2
    /\ reader.raw_value[Len(reader.raw_value)] = ","
    /\ AllDigits(SubSeq(reader.raw_value, 1, Len(reader.raw_value) - 1))
    /\ DecimalValue(SubSeq(reader.raw_value, 1, Len(reader.raw_value) - 1)) > 0

\* C40: a rows option giving only a lower bound "L," with L > 0 restricts
\* the run to the input rows from row L onward: the rows before L are
\* skipped and every later row is processed (unless it is unreadable).
C40_LowerBoundSkipsEarlierRows ==
    LowerBoundOnly =>
        LET L == DecimalValue(SubSeq(reader.raw_value, 1, Len(reader.raw_value) - 1))
        IN \A k \in 1..Len(reader.rows) :
              IF k < L THEN reader.rows[k] = "skipped"
              ELSE reader.rows[k] \in {"processed", "none"}


\* the longest the ceiling half of the call under way, and its delay half,
\* can take: the sleep asked for and the overshoot of the wake-up
CeilingSleepBound ==
    IF CeilingEnabled(call.before) THEN call.before.limit_interval + MaxOvershoot ELSE 0
DelaySleepBound ==
    IF call.before.delay > 0 THEN call.before.delay + MaxOvershoot ELSE 0

\* C39: a single make_limited_request() call always returns: it sleeps at
\* most limit_interval seconds for the ceiling plus at most delay seconds for
\* the delay (a wake-up may overshoot), and never blocks for ever.
C39_CallReturnsInBoundedTime ==
    /\ [](pc = "delay" => now - call.at <= CeilingSleepBound)
    /\ []((pc = "idle" /\ op = "make_limited_request") =>
             now - call.at <= CeilingSleepBound + DelaySleepBound)
    /\ (pc = "ceiling") ~> (pc = "idle" /\ op = "make_limited_request")

\* a call returned after sleeping for the ceiling and for the delay
C39_Witness ==
    /\ pc = "idle"
    /\ CeilingHit
    /\ call.before.delay > 0
    /\ session.limit_start > call.at
    /\ now > session.limit_start

====
